---- MODULE Spec2Model ----
(***************************************************************************)
(* A model of the media pipeline scripts of this repository:               *)
(*   - run_command, the external-process runner, in the variants of        *)
(*     download.py, s.py, process.py, Combine/combine.py and               *)
(*     Download_yt/download_yt.py (specification SpecRun);                 *)
(*   - the download batch loop of download.py and s.py with its tiers      *)
(*     (specification SpecBatch), and a second run of it (SpecRerun);      *)
(*   - get_next_available_name and the finalizing renames (SpecAlloc);     *)
(*   - the image pool of watermark.py (SpecWm);                            *)
(*   - the probes and what is computed from their results (SpecProbe);     *)
(*   - the combined tier of download.py and its output files (SpecTier);   *)
(*   - sanitize_filename (SpecSan);                                        *)
(*   - the batch conversions of process.py, s.py and Convert/convert.py    *)
(*     (SpecConv);                                                         *)
(*   - the 'split' submode of download.py (SpecSplit);                     *)
(*   - the selection of the two files in Combine/combine.py (SpecComb);    *)
(*   - move_file and move_or_copy_file of the rename scripts (SpecMove).   *)
(***************************************************************************)
EXTENDS Integers, Sequences, FiniteSets, TLC

(***************************************************************************)
(* Bounds of the model.                                                    *)
(***************************************************************************)
MaxRetries == 2

(***************************************************************************)
(*                       PART 1: run_command                               *)
(***************************************************************************)
VARIABLES
    variant,          \* which file's run_command is running
    suppress_errors,  \* the suppress_errors argument
    timeout,          \* TRUE iff a timeout argument was given (not None)
    retries,          \* the retries argument
    attempt,          \* the local counter `attempt`
    pc,               \* "while" | "try" | "except_timeout" | "done" | "blocked"
    process,          \* the current Popen object: behaviour of the child and its status
    spawned,          \* number of Popen calls made by this call
    outcomes,         \* per attempt, how the attempt ended
    result,           \* what run_command returned ("None" while it has not)
    untouched,        \* some child spawned by this call was left running without any signal
    allLate           \* every child spawned so far was still running at its deadline

runVars == <<variant, suppress_errors, timeout, retries, attempt, pc, process,
             spawned, outcomes, result, untouched, allLate>>

\* The state of the download batch loop (download.py, s.py).
VARIABLES
    script,                 \* "download" (download.py) or "s" (s.py)
    urls,                   \* the URLs read from the input file, in order
    removed,                \* the number of duplicates reported (0: nothing printed)
    started,                \* the URLs whose processing was started, in order
    run,                    \* 1 in the first run over the list, 2 in a second run
    first_run,              \* what the first run recorded per URL (set when it ends)
    orig_kind,              \* streams of the file at video_downloaded_path (s.py probes it)
    failed_fetch_used,      \* a tier of the item went on with the file of a failed fetch
    submode,                \* args.submode, one of the multi-tier modes
    keep_original,          \* args.keep_original
    audio_only,             \* args.audio_only (download.py)
    unique_urls,            \* the deduplicated list of URLs
    index,                  \* position of the current item in unique_urls (from 1)
    stage,                  \* the block of the loop body that runs next
    processed_urls,         \* url -> list of the tier letters recorded for it
    temps,                  \* the fixed-name temporary paths that exist on disk
    any_success,            \* download.py's any_success
    video_downloaded_path,  \* TRUE iff video_downloaded_path is not None
    attempts,               \* the fetches made for the current item, in order
    reported,               \* "No content could be downloaded" was printed for the item
    aFile,                  \* streams of the file the audio tier's fetch returned
    aFinal,                 \* that file was finalized successfully
    raised                  \* an exception left the item's try body

batchVars == <<script, submode, keep_original, audio_only, unique_urls, index, stage,
               processed_urls, temps, any_success, video_downloaded_path, attempts,
               reported, aFile, aFinal, raised, urls, removed, started, run,
               first_run, orig_kind, failed_fetch_used>>

\* The state of a sequence of name allocations in one output directory.
VARIABLES
    allocator,    \* which file's get_next_available_name is called
    force_num,    \* the force_num argument (s.py)
    files,        \* the paths that exist in the output directory
    start_num,    \* the start number passed to the next call
    alloc_pc,     \* "call" | "returned" | "stop"
    ret,          \* what the last call returned: the number used and the next number
    allocs,       \* number of calls made
    clobbered     \* the existing files that a finalization replaced or deleted

allocVars == <<allocator, force_num, files, start_num, alloc_pc, ret, allocs, clobbered>>

\* The state of the image pool of watermark.py.
VARIABLES
    workers,      \* cpu_count(), the size of the pool
    wm_pc,        \* per image task: where process_file is
    temp_img,     \* whose image is in temp_img.png of the shared directory (0: none)
    output_png,   \* whose inpainted image is in output.png (0: none)
    wm_saved      \* per image task: whose inpainted image was saved as its output

wmVars == <<workers, wm_pc, temp_img, output_png, wm_saved>>

\* One call of a probe, or of a computation on a probe's result.
VARIABLES
    fn,              \* what is called
    site,            \* the file (or the caller) whose copy of the code runs
    probe_success,   \* run_command's first result for the probe
    output,          \* run_command's second result for the probe
    width,           \* the width in the probe's data, the source's width
    height,          \* the height in the probe's data, the source's height
    duration,        \* the video's duration or the requested one (0: none probed)
    audio_duration,  \* what get_file_duration returned for the audio file
    returned         \* what the call returned or raised

probeVars == <<fn, site, probe_success, output, width, height, duration, audio_duration,
               returned>>

\* The combined tier of download.py in mode all, over the items of a batch.
VARIABLES
    o_keep,            \* args.keep_original
    o_items,           \* the number of items of the batch
    o_stage,           \* the block of the loop body that runs next
    o_item,            \* the locals of the current item
    o_done,            \* how the items that ended went, in order
    current_o_number,  \* the start number of the next allocation
    output_dir,        \* the output names that exist in the output directory
    partial,           \* those of them a failed transcode left incomplete
    o_temps            \* the fixed-name temporary paths that exist

tierVars == <<o_keep, o_items, o_stage, o_item, o_done, current_o_number, output_dir,
              partial, o_temps>>

\* One call of sanitize_filename.
VARIABLES
    san_site,     \* the file whose sanitize_filename is called
    filename,     \* its argument, a sequence of characters
    sanitized     \* what it returned (<<"?">> while it has not)

sanVars == <<san_site, filename, sanitized>>

\* A batch conversion of input input_files: process.py, s.py, Convert/convert.py.
VARIABLES
    conv_script,   \* "process", "s" or "convert"
    input_files,   \* the number of input input_files; they are numbered from 1
    conv_run,      \* 1 in the first run, 2 in a second run (convert.py)
    conv_index,    \* the position of the input file the loop is at
    conv_stage,    \* "loop" | "exited" | "end"
    attempted,     \* the inputs whose conversion was attempted in this run
    converted,     \* the inputs converted successfully in the first run
    again,         \* the inputs for which the second run allocated a name
    log_data,      \* conversion_log.json: entries of input and output number
    outputs,       \* the numbers of the output input_files that exist
    video_count    \* the start number of the next allocation

convVars == <<conv_script, input_files, conv_run, conv_index, conv_stage, attempted,
              converted, again, log_data, outputs, video_count>>

\* The 'split' submode of download.py over a list of URLs.
VARIABLES
    split_urls,         \* the number of URLs; they are numbered from 1
    split_index,        \* the position of the URL the loop is at
    split_stage,        \* "loop" | "crashed" | "end"
    audio_output_path,  \* the URL whose base name the path has; 0: unbound
    split_done,         \* one record for each URL the loop has gone through
    audio_files         \* the URLs whose {base}_audio.m4a exists

splitVars == <<split_urls, split_index, split_stage, audio_output_path, split_done,
               audio_files>>

\* The selection of the video file and of the audio file in Combine/combine.py.
VARIABLES
    listing,       \* the two files in the order os.listdir returns them
    comb_index,    \* the position of the file the classification is at
    comb_stage,    \* "access" | "classify" | "selected" | "combine" | "exit"
    video_file,    \* the name of the selected video file, or "None"
    audio_file     \* the name of the selected audio file, or "None"

combVars == <<listing, comb_index, comb_stage, video_file, audio_file>>

\* One call of move_file (rename.py) or move_or_copy_file (Rename/rename.py).
VARIABLES
    move_fn,              \* "move_file" | "move_or_copy_file"
    copy_flag,            \* the copy_flag argument (FALSE for move_file)
    apply_metadata_flag,  \* the apply_metadata_flag argument
    metadata_dict,        \* whether the metadata_dict argument is a non-empty dict
    src_exists,           \* whether the source path exists
    dests,                \* the counters n whose path {base}_{n}{ext} exists; 0: dest
    dests_before,         \* dests at the call
    move_attempt,         \* the attempt of the for loop
    move_stage,           \* "call" | "returned" | "raised"
    move_ret              \* the counter of the returned path

moveVars == <<move_fn, copy_flag, apply_metadata_flag, metadata_dict, src_exists,
              dests, dests_before, move_attempt, move_stage, move_ret>>

vars == <<runVars, batchVars, allocVars, wmVars, probeVars, tierVars, sanVars,
          convVars, splitVars, combVars, moveVars>>

notRun == <<batchVars, allocVars, wmVars, probeVars, tierVars, sanVars, convVars,
            splitVars, combVars, moveVars>>
notBatch == <<runVars, allocVars, wmVars, probeVars, tierVars, sanVars, convVars,
              splitVars, combVars, moveVars>>
notAlloc == <<runVars, batchVars, wmVars, probeVars, tierVars, sanVars, convVars,
              splitVars, combVars, moveVars>>
notWm == <<runVars, batchVars, allocVars, probeVars, tierVars, sanVars, convVars,
           splitVars, combVars, moveVars>>
notProbe == <<runVars, batchVars, allocVars, wmVars, tierVars, sanVars, convVars,
              splitVars, combVars, moveVars>>
notTier == <<runVars, batchVars, allocVars, wmVars, probeVars, sanVars, convVars,
             splitVars, combVars, moveVars>>
notSan == <<runVars, batchVars, allocVars, wmVars, probeVars, tierVars, convVars,
            splitVars, combVars, moveVars>>
notConv == <<runVars, batchVars, allocVars, wmVars, probeVars, tierVars, sanVars,
             splitVars, combVars, moveVars>>
notSplit == <<runVars, batchVars, allocVars, wmVars, probeVars, tierVars, sanVars,
              convVars, combVars, moveVars>>
notComb == <<runVars, batchVars, allocVars, wmVars, probeVars, tierVars, sanVars,
             convVars, splitVars, moveVars>>
notMove == <<runVars, batchVars, allocVars, wmVars, probeVars, tierVars, sanVars,
             convVars, splitVars, combVars>>

Variants == {"download", "s", "process", "combine", "download_yt"}

\* The variants whose loop is `while attempt <= retries`.
RetryVariants == {"download", "s", "process"}

(* What a child process does.  late: it is still running when the timeout   *)
(* elapses; writes: it writes a line to its output after that moment; bad:  *)
(* its output cannot be decoded (reading it raises, while it still runs);   *)
(* fate: how it ends if nobody signals it; ign: it ignores SIGTERM.         *)
Behaviours ==
    { b \in [late : BOOLEAN, writes : BOOLEAN, bad : BOOLEAN,
             fate : {"exit0", "exitNZ", "never"}, ign : BOOLEAN] :
        /\ (b.fate = "never" => b.late)
        /\ (b.writes => b.late)
        /\ (b.ign => b.writes)
        /\ (b.bad => ~b.late) }

NoProcess == [late |-> FALSE, writes |-> FALSE, bad |-> FALSE, fate |-> "exit0", ign |-> FALSE]

ByReturnCode(b) == IF b.fate = "exit0" THEN "Success" ELSE "Failed"

(* The try body of download.py's run_command: the stdout loop with its      *)
(* timeout test, then process.wait() and the return code.                   *)
TryDownloadLike(reads, t, b) ==
    IF reads /\ b.bad THEN [outcome |-> "Error", status |-> "running"]
    ELSE IF reads /\ t /\ b.late /\ b.writes
         THEN [outcome |-> "TimeoutError", status |-> IF b.ign THEN "sigkill" ELSE "sigterm"]
    ELSE IF b.fate = "never" THEN [outcome |-> "blocked", status |-> "running"]
    ELSE [outcome |-> ByReturnCode(b), status |-> "exited"]

run_command_download(sup, t, b) == TryDownloadLike(~sup, t, b)

(* s.py always opens a pipe and always reads it. *)
run_command_s(sup, t, b) == TryDownloadLike(TRUE, t, b)

(* process.py: process.communicate(timeout=timeout). *)
run_command_process(sup, t, b) ==
    IF t /\ b.late THEN [outcome |-> "TimeoutError", status |-> "sigkill"]
    ELSE IF b.fate = "never" THEN [outcome |-> "blocked", status |-> "running"]
    ELSE IF ~sup /\ b.bad THEN [outcome |-> "Error", status |-> "sigkill"]
    ELSE [outcome |-> ByReturnCode(b), status |-> "exited"]

(* Combine/combine.py: the same try body as process.py. *)
run_command_combine(sup, t, b) == run_command_process(sup, t, b)

(* Download_yt/download_yt.py: reads the pipe to its end (errors='replace'), *)
(* never looks at the timeout or the return code.                            *)
run_command_download_yt(sup, t, b) ==
    IF b.fate = "never" THEN [outcome |-> "blocked", status |-> "running"]
    ELSE [outcome |-> "Success", status |-> "exited"]

TryBody(v, sup, t, b) ==
    CASE v = "download"    -> run_command_download(sup, t, b)
      [] v = "s"           -> run_command_s(sup, t, b)
      [] v = "process"     -> run_command_process(sup, t, b)
      [] v = "combine"     -> run_command_combine(sup, t, b)
      [] v = "download_yt" -> run_command_download_yt(sup, t, b)

(* The loop condition. *)
WhileCond(v, a, r) ==
    CASE v \in RetryVariants -> a <= r
      [] v = "combine"       -> a < r
      [] v = "download_yt"   -> TRUE

(* A variant of RetryAfterTimeout that gives up one attempt early. *)
RetryAfterTimeout_OffByOne(v, a, r) ==
    CASE v \in RetryVariants -> a < r
      [] v = "combine"       -> a < r
      [] v = "download_yt"   -> FALSE

(* After `attempt += 1` in the timeout handler: retry or give up. *)
RetryAfterTimeout(v, a, r) ==
    CASE v \in RetryVariants -> a <= r
      [] v = "combine"       -> a < r
      [] v = "download_yt"   -> FALSE

(* A variant of ReturnsAfter that treats a non-zero exit like a timeout. *)
ReturnsAfter_RetryFailed(outcome) == outcome \in {"Success", "Error"}

(* What the code does with an attempt that ended without a timeout:         *)
(* every variant returns at once, whatever the return code.                 *)
ReturnsAfter(outcome) == outcome \in {"Success", "Failed", "Error"}

(* A variant of finally that never signals the child. *)
finally_NoTerminate(v, status) == status

(* The finally clause: terminate the child if it is still running. *)
finally(v, status) ==
    IF v # "download_yt" /\ status = "running" THEN "terminated" ELSE status

RunInit ==
    /\ variant \in Variants
    /\ suppress_errors \in BOOLEAN
    /\ timeout \in BOOLEAN
    /\ retries \in 0..MaxRetries
    /\ attempt = 0
    /\ pc = "while"
    /\ process = [beh |-> NoProcess, status |-> "none"]
    /\ spawned = 0
    /\ outcomes = <<>>
    /\ result = "None"
    /\ untouched = FALSE
    /\ allLate = TRUE

(* subprocess.Popen at the head of the loop body. *)
Popen ==
    /\ pc = "while"
    /\ WhileCond(variant, attempt, retries)
    /\ \E b \in Behaviours :
         /\ process' = [beh |-> b, status |-> "running"]
         /\ allLate' = (allLate /\ b.late)
    /\ spawned' = spawned + 1
    /\ pc' = "try"
    /\ UNCHANGED <<variant, suppress_errors, timeout, retries, attempt, outcomes,
                   result, untouched>>
    /\ UNCHANGED notRun

(* The loop condition is false: the function falls off its end. *)
WhileExit ==
    /\ pc = "while"
    /\ ~WhileCond(variant, attempt, retries)
    /\ pc' = "done"
    /\ UNCHANGED <<variant, suppress_errors, timeout, retries, attempt, process,
                   spawned, outcomes, result, untouched, allLate>>
    /\ UNCHANGED notRun

(* The try body ends in a return (normal or from `except Exception`);       *)
(* the finally clause runs on the way out.                                  *)
TryReturn ==
    /\ pc = "try"
    /\ LET r == TryBody(variant, suppress_errors, timeout, process.beh)
           st == finally(variant, r.status)
       IN /\ r.outcome \in {"Success", "Failed", "Error"}
          /\ process' = [process EXCEPT !.status = st]
          /\ outcomes' = Append(outcomes, r.outcome)
          /\ untouched' = (untouched \/ st = "running")
          /\ IF ReturnsAfter(r.outcome)
             THEN /\ result' = r.outcome
                  /\ pc' = "done"
                  /\ attempt' = attempt
             ELSE /\ result' = result
                  /\ attempt' = attempt + 1
                  /\ pc' = IF RetryAfterTimeout(variant, attempt + 1, retries)
                           THEN "while" ELSE "done"
    /\ UNCHANGED <<variant, suppress_errors, timeout, retries, spawned, allLate>>
    /\ UNCHANGED notRun

(* The try body raises the timeout, after signalling the child. *)
TryTimeout ==
    /\ pc = "try"
    /\ LET r == TryBody(variant, suppress_errors, timeout, process.beh)
       IN /\ r.outcome = "TimeoutError"
          /\ process' = [process EXCEPT !.status = r.status]
    /\ pc' = "except_timeout"
    /\ UNCHANGED <<variant, suppress_errors, timeout, retries, attempt, spawned,
                   outcomes, result, untouched, allLate>>
    /\ UNCHANGED notRun

(* The try body never ends: the read of the pipe or the wait blocks. *)
TryBlocks ==
    /\ pc = "try"
    /\ TryBody(variant, suppress_errors, timeout, process.beh).outcome = "blocked"
    /\ pc' = "blocked"
    /\ outcomes' = Append(outcomes, "blocked")
    /\ UNCHANGED <<variant, suppress_errors, timeout, retries, attempt, process,
                   spawned, result, untouched, allLate>>
    /\ UNCHANGED notRun

(* The timeout handler: count the attempt, retry or return the failure;     *)
(* the finally clause runs on `continue` as well as on `return`.            *)
ExceptTimeout ==
    /\ pc = "except_timeout"
    /\ attempt' = attempt + 1
    /\ outcomes' = Append(outcomes, "TimedOut")
    /\ LET st == finally(variant, process.status)
       IN /\ process' = [process EXCEPT !.status = st]
          /\ untouched' = (untouched \/ st = "running")
    /\ IF RetryAfterTimeout(variant, attempt + 1, retries)
       THEN /\ pc' = "while"
            /\ result' = result
       ELSE /\ pc' = "done"
            /\ result' = "TimedOut"
    /\ UNCHANGED <<variant, suppress_errors, timeout, retries, spawned, allLate>>
    /\ UNCHANGED notRun

RunNext == Popen \/ WhileExit \/ TryReturn \/ TryTimeout \/ TryBlocks \/ ExceptTimeout

(***************************************************************************)
(*          PART 2: the download batch loop (download.py, s.py)            *)
(***************************************************************************)
MaxUrls == 2
MaxRerunUrls == 1

\* One URL of a video platform, one of an image platform, one of neither.
Urls == {"https://youtube.com/v", "https://instagram.com/p", "https://example.org/x"}

is_video_platform(u) == u = "https://youtube.com/v"

is_image_platform(u) == u = "https://instagram.com/p"

temp_file == "temp_download.mp4"
temp_audio_file == "temp_audio.m4a"
temp_image_dir == "temp_images"
temp_thumbnail == "temp_download.webp"
temp_audio_thumbnail == "temp_audio.m4a.webp"
temp_audio_only == "temp_audio_only.m4a"

TempPaths == {temp_file, temp_audio_file, temp_image_dir, temp_thumbnail,
              temp_audio_thumbnail, temp_audio_only}

Modes == {"all", "all+a", "all+a+v", "all+v"}

Has(p, letter) == \E i \in 1..Len(p) : p[i] = letter

Letters(p) == {p[i] : i \in 1..Len(p)}

If(c, S) == IF c THEN S ELSE {}

(* What the fetch tool did: its exit status, whether a file is now at the   *)
(* output template's path, whether it wrote the thumbnail (download.py     *)
(* passes --write-thumbnail, s.py does not).                                *)
Fetches(sc) ==
    { f \in [success : BOOLEAN, wrote : BOOLEAN, thumb : BOOLEAN] :
        sc = "s" => ~f.thumb }

(* gallery-dl: its exit status and whether the directory holds an image. *)
Galleries == [success : BOOLEAN, images : BOOLEAN]

(* Streams of a fetched file as the two probes report them. *)
Kinds == {"av", "v", "a", "none"}

(* Streams of the file the combined fetch produces. *)
OrigKinds == {"av", "v"}
has_video_stream(k) == k \in {"av", "v"}
has_audio_stream(k) == k \in {"av", "a"}

(* How the finalization of a fetched file can end: "ok", "fail" (the        *)
(* transcode tool failed) or "exc" (os.rename or json.loads raised).        *)
(* A plain rename cannot "fail"; the audio re-encode parses no JSON.        *)
Finalizations(rename_only, audio) ==
    IF audio THEN {"ok", "fail"}
    ELSE IF rename_only THEN {"ok", "exc"}
    ELSE {"ok", "fail", "exc"}

(* A variant of Reclassify that records every audio-tier file as Audio. *)
Reclassify_AlwaysAudio(k, p) == "A"

(* The branch the audio tier takes for the file it fetched. *)
Reclassify(k, p) ==
    IF has_video_stream(k) /\ has_audio_stream(k) /\ ~Has(p, "O") THEN "O"
    ELSE IF has_video_stream(k) /\ ~Has(p, "V") THEN "V"
    ELSE "A"

(* The guards of the tiers of download.py. *)
AudioGuard(p) == ~Has(p, "O") /\ ~Has(p, "A")
VideoGuard(p) == ~Has(p, "O") /\ ~Has(p, "V")
PictureGuard(p) == ~Has(p, "O") /\ ~Has(p, "V") /\ ~Has(p, "P")

(* The guards of the tiers of s.py. *)
SPictureGuard(p) == ~Has(p, "P") /\ ~Has(p, "O")
SVideoGuard(p) == ~Has(p, "V") /\ ~Has(p, "O") /\ ~Has(p, "P")
SAudioGuard(p) == ~Has(p, "A") /\ ~Has(p, "O") /\ ~Has(p, "P")

(* A variant of StopAfterTier that never leaves the item early. *)
StopAfterTier_Never(m) == FALSE

(* s.py: `if submode == "all": continue` after a tier recorded its letter. *)
StopAfterTier(m) == m = "all"

(* A variant of NextStage in which download.py tries video-only before audio. *)
NextStage_VideoFirst(sc, st) ==
    IF sc = "download"
    THEN CASE st = "original" -> "video"
           [] st = "video"    -> "audio"
           [] st = "audio"    -> "picture"
           [] st = "picture"  -> "report"
           [] OTHER           -> "finally"
    ELSE CASE st = "pre_picture" -> "original"
           [] st = "original"    -> "picture"
           [] st = "picture"     -> "video"
           [] st = "video"       -> "audio"
           [] st = "audio"       -> "extra_audio"
           [] st = "extra_audio" -> "extra_video"
           [] OTHER              -> "finally"

(* The order of the blocks of the loop body: where control goes when a      *)
(* block is left at its end (not by `continue`).                            *)
NextStage(sc, st) ==
    IF sc = "download"
    THEN CASE st = "original" -> "audio"
           [] st = "audio"    -> "video"
           [] st = "video"    -> "picture"
           [] st = "picture"  -> "report"
           [] OTHER           -> "finally"
    ELSE CASE st = "pre_picture" -> "original"
           [] st = "original"    -> "picture"
           [] st = "picture"     -> "video"
           [] st = "video"       -> "audio"
           [] st = "audio"       -> "extra_audio"
           [] st = "extra_audio" -> "extra_video"
           [] OTHER              -> "finally"

url == unique_urls[index]

(* The per-item state as a record, and the action that installs one. *)
Cur == [stage |-> stage, p |-> processed_urls[url], temps |-> temps,
        any |-> any_success, vdp |-> video_downloaded_path, att |-> attempts,
        rep |-> reported, af |-> aFile, afin |-> aFinal, raised |-> raised,
        started |-> started, ok |-> orig_kind, ffu |-> failed_fetch_used]

Install(r) ==
    /\ stage' = r.stage
    /\ processed_urls' = [processed_urls EXCEPT ![url] = r.p]
    /\ temps' = r.temps
    /\ any_success' = r.any
    /\ video_downloaded_path' = r.vdp
    /\ attempts' = r.att
    /\ reported' = r.rep
    /\ aFile' = r.af
    /\ aFinal' = r.afin
    /\ raised' = r.raised
    /\ started' = r.started
    /\ orig_kind' = r.ok
    /\ failed_fetch_used' = r.ffu
    /\ UNCHANGED <<script, submode, keep_original, audio_only, unique_urls, index,
                   urls, removed, run, first_run>>
    /\ UNCHANGED notBatch

Fall(c) == [c EXCEPT !.stage = NextStage(script, stage)]
Continue(c) == [c EXCEPT !.stage = "finally"]
Raise(c) == [c EXCEPT !.stage = "finally", !.raised = TRUE]

(* The input lists: 1..MaxUrls URLs, duplicates allowed. *)
UrlLists == UNION { [1..n -> Urls] : n \in 1..MaxUrls }

RECURSIVE fromkeys(_, _)

(* A variant of fromkeys that keeps every occurrence. *)
fromkeys_KeepAll(l, d) == d \o l

(* list(dict.fromkeys(l)): the keys of a dict are kept in insertion order,  *)
(* and inserting a key that is present leaves its position alone.           *)
fromkeys(l, d) ==
    IF l = <<>> THEN d
    ELSE fromkeys(Tail(l), IF Has(d, Head(l)) THEN d ELSE Append(d, Head(l)))

BatchInit ==
    /\ script \in {"download", "s"}
    /\ submode \in Modes
    /\ (script = "download" => submode = "all")
    /\ keep_original \in BOOLEAN
    /\ audio_only \in BOOLEAN
    /\ (script = "s" => ~audio_only)
    /\ urls \in UrlLists
    /\ unique_urls = fromkeys(urls, <<>>)
    /\ removed = IF Len(unique_urls) < Len(urls) THEN Len(urls) - Len(unique_urls) ELSE 0
    /\ started = <<>>
    /\ run = 1
    /\ first_run = [u \in Urls |-> <<>>]
    /\ orig_kind = "none"
    /\ failed_fetch_used = FALSE
    /\ index = 1
    /\ stage = "start"
    /\ processed_urls = [u \in Urls |-> <<>>]
    /\ temps = {}
    /\ any_success = FALSE
    /\ video_downloaded_path = FALSE
    /\ attempts = <<>>
    /\ reported = FALSE
    /\ aFile = "unset"
    /\ aFinal = FALSE
    /\ raised = FALSE

Fresh(c, st, tm) ==
    [c EXCEPT !.stage = st, !.temps = tm, !.any = FALSE, !.vdp = FALSE, !.att = <<>>,
              !.rep = FALSE, !.af = "unset", !.afin = FALSE, !.raised = FALSE,
              !.started = Append(c.started, url), !.ok = "none", !.ffu = FALSE]

----------------------------------------------------------------------------
(* download.py *)

(* The head of the loop body: leftovers are removed, then the mode is chosen. *)
DlStart ==
    /\ script = "download" /\ stage = "start"
    /\ Install(Fresh(Cur, IF audio_only THEN "audio_only" ELSE "original",
                     temps \ {temp_file, temp_audio_file, temp_thumbnail,
                              temp_audio_thumbnail, temp_image_dir}))

(* `all --audio-only`. *)
DlAudioOnly ==
    /\ script = "download" /\ stage = "audio_only"
    /\ \E f \in Fetches(script), k \in Kinds, ex \in [ok : BOOLEAN, wrote : BOOLEAN],
          fin \in Finalizations(FALSE, TRUE) :
        LET c0 == [Cur EXCEPT !.att = Append(attempts, "A")]
            t1 == temps \cup If(f.wrote, {temp_audio_file}) \cup If(f.thumb, {temp_audio_thumbnail})
            t2 == IF has_video_stream(k) THEN t1 \cup If(ex.wrote, {temp_audio_only}) ELSE t1
            extracted == ~has_video_stream(k) \/ (ex.ok /\ temp_audio_only \in t2)
            t3 == IF has_video_stream(k) THEN t2 \ {temp_audio_only} ELSE t2
        IN Install(
            IF f.success /\ temp_audio_file \in t1
            THEN IF ~extracted
                 THEN Continue([c0 EXCEPT !.temps = t2 \ {temp_audio_file, temp_audio_thumbnail}])
                 ELSE IF fin = "ok"
                      THEN Continue([c0 EXCEPT
                               !.temps = t3 \ {temp_audio_file, temp_audio_thumbnail},
                               !.p = Append(c0.p, "A"), !.any = TRUE])
                      ELSE Continue([c0 EXCEPT !.temps = t3 \ {temp_audio_file, temp_audio_thumbnail}])
            ELSE Continue([c0 EXCEPT !.temps = t1 \ {temp_audio_file, temp_audio_thumbnail}]))

(* The combined (Original) tier. *)
DlOriginal ==
    /\ script = "download" /\ stage = "original"
    /\ ~Has(processed_urls[url], "O")
    /\ \E f \in Fetches(script), fin \in Finalizations(FALSE, FALSE) :
        LET c0 == [Cur EXCEPT !.att = Append(attempts, "O")]
            t1 == temps \cup If(f.wrote, {temp_file}) \cup If(f.thumb, {temp_thumbnail})
        IN Install(
            IF f.success /\ temp_file \in t1
            THEN IF fin = "exc"
                 THEN Raise([c0 EXCEPT !.temps = t1])
                 ELSE Fall([c0 EXCEPT !.temps = t1 \ {temp_file, temp_thumbnail},
                                      !.any = (c0.any \/ fin = "ok"),
                                      !.vdp = TRUE,
                                      !.p = Append(c0.p, "O")])
            ELSE Fall([c0 EXCEPT !.temps = t1 \ {temp_thumbnail}]))

(* The audio-only tier, with the reclassification of a muxed file. *)
DlAudio ==
    /\ script = "download" /\ stage = "audio"
    /\ IF ~AudioGuard(processed_urls[url])
       THEN Install(Fall(Cur))
       ELSE \E f \in Fetches(script), k \in Kinds :
            LET tier == Reclassify(k, processed_urls[url])
            IN \E fin \in Finalizations(keep_original /\ tier # "A", tier = "A") :
                LET c0 == [Cur EXCEPT !.att = Append(attempts, "A")]
                    t1 == temps \cup If(f.wrote, {temp_audio_file})
                                \cup If(f.thumb, {temp_audio_thumbnail})
                    c1 == [c0 EXCEPT !.af = k, !.afin = (fin = "ok")]
                IN Install(
                    IF f.success /\ temp_audio_file \in t1
                    THEN CASE fin = "exc"  -> Raise([c1 EXCEPT !.temps = t1])
                           [] fin = "fail" -> Continue([c1 EXCEPT
                                   !.temps = t1 \ {temp_audio_file, temp_audio_thumbnail}])
                           [] fin = "ok"   -> Fall([c1 EXCEPT
                                   !.temps = t1 \ {temp_audio_file, temp_audio_thumbnail},
                                   !.any = TRUE,
                                   !.vdp = (c1.vdp \/ tier = "O"),
                                   !.p = Append(c1.p, tier)])
                    ELSE Fall([c0 EXCEPT !.temps = t1 \ {temp_audio_file, temp_audio_thumbnail}]))

(* The video-only tier. *)
DlVideo ==
    /\ script = "download" /\ stage = "video"
    /\ IF ~VideoGuard(processed_urls[url])
       THEN Install(Fall(Cur))
       ELSE \E f \in Fetches(script), fin \in Finalizations(keep_original, FALSE) :
            LET c0 == [Cur EXCEPT !.att = Append(attempts, "V")]
                t1 == temps \cup If(f.wrote, {temp_file}) \cup If(f.thumb, {temp_thumbnail})
            IN Install(
                IF f.success /\ temp_file \in t1
                THEN CASE fin = "exc"  -> Raise([c0 EXCEPT !.temps = t1])
                       [] fin = "fail" -> Continue([c0 EXCEPT
                               !.temps = t1 \ {temp_file, temp_thumbnail}])
                       [] fin = "ok"   -> Fall([c0 EXCEPT
                               !.temps = t1 \ {temp_file, temp_thumbnail},
                               !.any = TRUE,
                               !.p = Append(c0.p, "V")])
                ELSE Fall([c0 EXCEPT !.temps = t1 \ {temp_thumbnail}]))

(* The picture tier. *)
DlPicture ==
    /\ script = "download" /\ stage = "picture"
    /\ IF ~PictureGuard(processed_urls[url])
          \/ (is_video_platform(url) /\ Has(processed_urls[url], "A"))
       THEN Install(Fall(Cur))
       ELSE \E g \in Galleries, fin \in Finalizations(TRUE, FALSE) :
            LET c0 == [Cur EXCEPT !.att = Append(attempts, "P")]
                t1 == temps \cup {temp_image_dir}
            IN Install(
                IF g.success /\ g.images
                THEN IF fin = "exc"
                     THEN Raise([c0 EXCEPT !.temps = t1])
                     ELSE Continue([c0 EXCEPT !.temps = t1 \ {temp_image_dir},
                                              !.any = TRUE,
                                              !.p = Append(c0.p, "P")])
                ELSE Fall([c0 EXCEPT !.temps = t1 \ {temp_image_dir}]))

(* `if not any_success: print("No content could be downloaded ...")`. *)
DlReport ==
    /\ script = "download" /\ stage = "report"
    /\ Install(Continue([Cur EXCEPT !.rep = ~any_success]))

(* except / finally of the loop body, then the next item. *)
DlFinally ==
    /\ script = "download" /\ stage = "finally"
    /\ temps' = temps \ {temp_file, temp_audio_file, temp_thumbnail,
                         temp_audio_thumbnail, temp_image_dir}
    /\ index' = IF index < Len(unique_urls) THEN index + 1 ELSE index
    /\ stage' = IF index < Len(unique_urls) THEN "start" ELSE "end"
    /\ UNCHANGED <<script, submode, keep_original, audio_only, unique_urls,
                   processed_urls, any_success, video_downloaded_path, attempts,
                   reported, aFile, aFinal, raised, urls, removed, started, run,
                   first_run, orig_kind, failed_fetch_used>>
    /\ UNCHANGED notBatch

BatchNextDl ==
    DlStart \/ DlAudioOnly \/ DlOriginal \/ DlAudio \/ DlVideo \/ DlPicture
        \/ DlReport \/ DlFinally

----------------------------------------------------------------------------
(* s.py *)

(* The head of the loop body: leftovers are removed; in 'all' mode an image *)
(* platform gets a picture attempt first.                                   *)
SStart ==
    /\ script = "s" /\ stage = "start"
    /\ Install(Fresh(Cur,
                     IF submode = "all" /\ is_image_platform(url)
                            /\ ~Has(processed_urls[url], "P")
                     THEN "pre_picture" ELSE "original",
                     temps \ {temp_file, temp_audio_file, temp_image_dir}))

(* The picture block shared by the two picture attempts of s.py: the        *)
(* gallery-dl check, the fetch, the rename or conversion of the first image.*)
SPictureBlock(c, letter, chk, g, fin) ==
    LET t1 == c.temps \cup {temp_image_dir}
        c0 == [c EXCEPT !.att = Append(c.att, letter)]
    IN IF ~chk
       THEN Continue([c EXCEPT !.temps = t1 \ {temp_image_dir}])
       ELSE IF g.success /\ g.images
            THEN IF keep_original /\ fin = "exc"
                 THEN Raise([c0 EXCEPT !.temps = t1])
                 ELSE LET c1 == [c0 EXCEPT !.temps = t1 \ {temp_image_dir},
                                           !.p = Append(c0.p, "P")]
                      IN IF StopAfterTier(submode) THEN Continue(c1) ELSE Fall(c1)
            ELSE Fall([c0 EXCEPT !.temps = t1 \ {temp_image_dir}])

SPrePicture ==
    /\ script = "s" /\ stage = "pre_picture"
    /\ \E chk \in BOOLEAN, g \in Galleries, fin \in Finalizations(TRUE, FALSE) :
         Install(SPictureBlock(Cur, "p", chk, g, fin))

(* The combined (Original) tier: the file is used whenever it exists. *)
SOriginal ==
    /\ script = "s" /\ stage = "original"
    /\ ~Has(processed_urls[url], "O")
    /\ \E f \in Fetches(script), fin \in Finalizations(FALSE, FALSE), k \in OrigKinds :
        LET t1 == temps \cup If(f.wrote, {temp_file})
            c0 == [Cur EXCEPT !.att = Append(attempts, "O"),
                              !.ffu = (~f.success /\ temp_file \in t1)]
        IN Install(
            IF temp_file \in t1
            THEN CASE fin = "exc"  -> Raise([c0 EXCEPT !.temps = t1])
                   [] fin = "fail" -> Continue([c0 EXCEPT !.temps = t1 \ {temp_file}])
                   [] fin = "ok"   ->
                        LET c1 == [c0 EXCEPT !.temps = t1 \ {temp_file}, !.vdp = TRUE,
                                             !.ok = k,
                                             !.p = Append(c0.p, "O")]
                        IN IF StopAfterTier(submode) THEN Continue(c1) ELSE Fall(c1)
            ELSE Fall([c0 EXCEPT !.temps = t1]))

SPicture ==
    /\ script = "s" /\ stage = "picture"
    /\ IF ~SPictureGuard(processed_urls[url])
          \/ (is_video_platform(url)
                /\ (Has(processed_urls[url], "V") \/ Has(processed_urls[url], "A")))
       THEN Install(Fall(Cur))
       ELSE \E chk \in BOOLEAN, g \in Galleries, fin \in Finalizations(TRUE, FALSE) :
              Install(SPictureBlock(Cur, "P", chk, g, fin))

SVideo ==
    /\ script = "s" /\ stage = "video"
    /\ IF ~SVideoGuard(processed_urls[url])
       THEN Install(Fall(Cur))
       ELSE \E f \in Fetches(script), fin \in Finalizations(keep_original, FALSE) :
            LET c0 == [Cur EXCEPT !.att = Append(attempts, "V")]
                t1 == temps \cup If(f.wrote, {temp_file})
            IN Install(
                IF f.success /\ temp_file \in t1
                THEN CASE fin = "exc"  -> Raise([c0 EXCEPT !.temps = t1])
                       [] fin = "fail" -> Continue([c0 EXCEPT !.temps = t1 \ {temp_file}])
                       [] fin = "ok"   ->
                            LET c1 == [c0 EXCEPT !.temps = t1 \ {temp_file},
                                                 !.p = Append(c0.p, "V")]
                            IN IF StopAfterTier(submode) THEN Continue(c1) ELSE Fall(c1)
                ELSE Fall([c0 EXCEPT !.temps = t1]))

(* What s.py does with the file an audio fetch returned; `extract` is the   *)
(* outcome of the audio extraction that follows a reclassified Original in  *)
(* the separate-audio step ("none" in the audio tier).                      *)
SAudioFile(c, t1, k, fin, extract) ==
    LET tier == Reclassify(k, c.p)
    IN CASE fin = "exc"  -> Raise([c EXCEPT !.temps = t1])
         [] fin = "fail" -> Continue([c EXCEPT !.temps = t1 \ {temp_audio_file}])
         [] fin = "ok"   ->
              Fall([c EXCEPT !.temps = t1 \ {temp_audio_file},
                             !.vdp = (c.vdp \/ tier = "O"),
                             !.ok = IF tier = "O" THEN k ELSE c.ok,
                             !.p = IF tier = "O" /\ extract = "ok"
                                   THEN c.p \o <<"O", "A">>
                                   ELSE Append(c.p, tier)])

SAudio ==
    /\ script = "s" /\ stage = "audio"
    /\ IF ~SAudioGuard(processed_urls[url])
       THEN Install(Fall(Cur))
       ELSE \E f \in Fetches(script), k \in Kinds :
            LET tier == Reclassify(k, processed_urls[url])
            IN \E fin \in Finalizations(keep_original /\ tier # "A", tier = "A") :
                LET c0 == [Cur EXCEPT !.att = Append(attempts, "A")]
                    t1 == temps \cup If(f.wrote, {temp_audio_file})
                    c1 == [c0 EXCEPT !.af = k, !.afin = (fin = "ok")]
                IN Install(
                    IF f.success /\ temp_audio_file \in t1
                    THEN SAudioFile(c1, t1, k, fin, "none")
                    ELSE Fall([c0 EXCEPT !.temps = t1]))

(* A variant of ExtractLocally that never uses the acquired Original. *)
ExtractLocally_Never(p, vdp, k) == FALSE

(* `'O' in processed_urls[url] and video_downloaded_path and                *)
(* has_audio_stream(video_downloaded_path)`.                                *)
ExtractLocally(p, vdp, k) == Has(p, "O") /\ vdp /\ has_audio_stream(k)

(* all+a, all+a+v: the separate audio, extracted from the acquired Original *)
(* or fetched.                                                              *)
SExtraAudio ==
    /\ script = "s" /\ stage = "extra_audio"
    /\ IF ~(submode \in {"all+a", "all+a+v"} /\ ~Has(processed_urls[url], "A"))
       THEN Install(Fall(Cur))
       ELSE \E extract \in {"ok", "fail"} :
            IF ExtractLocally(processed_urls[url], video_downloaded_path, orig_kind)
            THEN Install(Fall([Cur EXCEPT !.p = IF extract = "ok"
                                                 THEN Append(Cur.p, "A") ELSE Cur.p]))
            ELSE IF Has(processed_urls[url], "P")
                 THEN Install(Continue(Cur))
                 ELSE \E f \in Fetches(script), k \in Kinds :
                      LET tier == Reclassify(k, processed_urls[url])
                      IN \E fin \in Finalizations(keep_original /\ tier # "A", tier = "A") :
                          LET c0 == [Cur EXCEPT !.att = Append(attempts, "A")]
                              t1 == temps \cup If(f.wrote, {temp_audio_file})
                          IN Install(
                              IF f.success /\ temp_audio_file \in t1
                              THEN SAudioFile(c0, t1, k, fin, extract)
                              ELSE Fall([c0 EXCEPT !.temps = t1]))

(* all+a+v, all+v: the video-only split of the acquired Original. *)
SExtraVideo ==
    /\ script = "s" /\ stage = "extra_video"
    /\ IF submode \in {"all+a+v", "all+v"} /\ Has(processed_urls[url], "O")
            /\ ~Has(processed_urls[url], "V")
       THEN \E split \in {"ok", "fail"} :
              Install(Fall([Cur EXCEPT !.p = IF split = "ok"
                                              THEN Append(Cur.p, "V") ELSE Cur.p]))
       ELSE Install(Fall(Cur))

(* finally of the loop body; s.py has no except clause, so an exception     *)
(* leaves main after the cleanup.                                           *)
SFinally ==
    /\ script = "s" /\ stage = "finally"
    /\ temps' = temps \ {temp_file, temp_audio_file, temp_image_dir}
    /\ index' = IF ~raised /\ index < Len(unique_urls) THEN index + 1 ELSE index
    /\ stage' = IF raised THEN "crashed"
                ELSE IF index < Len(unique_urls) THEN "start" ELSE "end"
    /\ UNCHANGED <<script, submode, keep_original, audio_only, unique_urls,
                   processed_urls, any_success, video_downloaded_path, attempts,
                   reported, aFile, aFinal, raised, urls, removed, started, run,
                   first_run, orig_kind, failed_fetch_used>>
    /\ UNCHANGED notBatch

BatchNextS ==
    SStart \/ SPrePicture \/ SOriginal \/ SPicture \/ SVideo \/ SAudio
        \/ SExtraAudio \/ SExtraVideo \/ SFinally

----------------------------------------------------------------------------
(* The two specifications: each leaves the other part's variables alone. *)

(***************************************************************************)
(*                PART 3: get_next_available_name                          *)
(***************************************************************************)
MaxNum == 5
MaxStart == 2
MaxSidecars == 1
MaxAllocs == 2

Allocators == {"download", "process", "trim", "download_yt", "s"}

(* The paths of one prefix (and title) in the output directory: the primary *)
(* path {prefix}_{n}{ext}, its sidecar {prefix}_{n}_thumb.webp, and the     *)
(* same base name with another extension.                                   *)
PathKinds == {"primary", "thumb", "other"}
Path(n, kind) == [num |-> n, kind |-> kind]

(* A variant of Taken that looks at the primary path only. *)
Taken_PrimaryOnly(a, fs, n) == Path(n, "primary") \in fs

(* The negation of the `if not os.path.exists(...)` test of the loop. *)
Taken(a, fs, n) ==
    \/ Path(n, "primary") \in fs
    \/ (a \in {"download", "process", "trim"} /\ Path(n, "thumb") \in fs)

(* The `while True` loop: the first number from n on that is accepted. *)
RECURSIVE scan(_, _, _, _)
scan(a, fs, force, n) ==
    IF (a = "s" /\ force) \/ ~Taken(a, fs, n) THEN n ELSE scan(a, fs, force, n + 1)

(* The number of the name returned and the next number returned with it     *)
(* (s.py, called without a title, returns num itself).                      *)
get_next_available_name(a, fs, force, start) ==
    LET n == scan(a, fs, force, start)
    IN [num |-> n, next |-> IF a = "s" THEN n ELSE n + 1]

AllocInit ==
    /\ allocator \in Allocators
    /\ force_num \in BOOLEAN
    /\ (force_num => allocator = "s")
    /\ \E ps \in SUBSET (1..MaxNum), ts \in SUBSET (1..MaxNum), os \in SUBSET (1..MaxNum) :
         /\ Cardinality(ts) <= MaxSidecars
         /\ Cardinality(os) <= MaxSidecars
         /\ (os # {} => allocator = "download")
         /\ files = {Path(n, "primary") : n \in ps} \cup {Path(n, "thumb") : n \in ts}
                       \cup {Path(n, "other") : n \in os}
    /\ start_num \in 1..MaxStart
    /\ alloc_pc = "call"
    /\ ret = [num |-> 0, next |-> 0]
    /\ allocs = 0
    /\ clobbered = {}

(* One call of get_next_available_name. *)
Allocate ==
    /\ alloc_pc = "call"
    /\ allocs < MaxAllocs
    /\ ret' = get_next_available_name(allocator, files, force_num, start_num)
    /\ allocs' = allocs + 1
    /\ alloc_pc' = "returned"
    /\ UNCHANGED <<allocator, force_num, files, start_num, clobbered>>
    /\ UNCHANGED notAlloc

(* How the caller can finalize the file for the returned name: "media"      *)
(* writes the primary path, "media+thumb" also renames the thumbnail to the *)
(* sidecar path, "picture" renames the first image to the base name with    *)
(* the image's own extension.                                               *)
Hows(a) ==
    CASE a = "download"    -> {"media", "media+thumb", "picture", "picture_ext"}
      [] a = "download_yt" -> {"media", "media+thumb"}
      [] OTHER             -> {"media"}

(* The paths a finalization writes. ffmpeg (run without -y) does not write  *)
(* over an existing primary path; os.rename replaces its target.            *)
Written(a, fs, n, how) ==
    CASE how = "media"       -> {Path(n, "primary")} \ fs
      [] how = "media+thumb" -> ({Path(n, "primary")} \ fs) \cup {Path(n, "thumb")}
      [] how = "picture"     -> {Path(n, "primary")}
      [] how = "picture_ext" -> {Path(n, "other")}

(* The caller saves its output under the returned name and keeps the        *)
(* returned next number.                                                    *)
Finalize ==
    /\ alloc_pc = "returned"
    /\ \E how \in Hows(allocator) :
         LET w == Written(allocator, files, ret.num, how)
         IN /\ files' = files \cup w
            /\ clobbered' = clobbered \cup (w \cap files)
    /\ start_num' = ret.next
    /\ alloc_pc' = "call"
    /\ UNCHANGED <<allocator, force_num, ret, allocs>>
    /\ UNCHANGED notAlloc

(* The tier fails: nothing is saved; the next number is kept all the same.  *)
Abandon ==
    /\ alloc_pc = "returned"
    /\ start_num' = ret.next
    /\ alloc_pc' = "call"
    /\ UNCHANGED <<allocator, force_num, files, ret, allocs, clobbered>>
    /\ UNCHANGED notAlloc

AllocNext == Allocate \/ Finalize \/ Abandon

AllocIdle ==
    /\ allocator = "download" /\ force_num = FALSE /\ files = {} /\ start_num = 1
    /\ alloc_pc = "stop" /\ ret = [num |-> 0, next |-> 0] /\ allocs = 0
    /\ clobbered = {}

(***************************************************************************)
(*                PART 4: the image pool of watermark.py                   *)
(***************************************************************************)
MaxImages == 3
MaxWorkers == 2

Images == 1..MaxImages

InFlight(pcs) == {t \in Images : pcs[t] \in {"started", "temp_written", "inpainted"}}

WmInit ==
    /\ workers \in 1..MaxWorkers
    /\ wm_pc = [t \in Images |-> "queued"]
    /\ temp_img = 0
    /\ output_png = 0
    /\ wm_saved = [t \in Images |-> 0]

(* A free worker of the pool takes the next image task. *)
WmStart(t) ==
    /\ wm_pc[t] = "queued"
    /\ Cardinality(InFlight(wm_pc)) < workers
    /\ wm_pc' = [wm_pc EXCEPT ![t] = "started"]
    /\ UNCHANGED <<workers, temp_img, output_png, wm_saved>>
    /\ UNCHANGED notWm

(* cv2.imwrite(temp_img_path, img): the fixed name in the shared temp_dir. *)
WmWriteTemp(t) ==
    /\ wm_pc[t] = "started"
    /\ temp_img' = t
    /\ wm_pc' = [wm_pc EXCEPT ![t] = "temp_written"]
    /\ UNCHANGED <<workers, output_png, wm_saved>>
    /\ UNCHANGED notWm

(* The inpainting command works on what is in the directory when it runs. *)
WmInpaint(t) ==
    /\ wm_pc[t] = "temp_written"
    /\ \E success \in BOOLEAN :
         IF success
         THEN /\ output_png' = temp_img
              /\ wm_pc' = [wm_pc EXCEPT ![t] = "inpainted"]
         ELSE /\ output_png' = output_png
              /\ wm_pc' = [wm_pc EXCEPT ![t] = "done"]
    /\ UNCHANGED <<workers, temp_img, wm_saved>>
    /\ UNCHANGED notWm

(* cv2.imread(output_temp_path), cv2.imwrite(output_path, ...). *)
WmSave(t) ==
    /\ wm_pc[t] = "inpainted"
    /\ wm_saved' = [wm_saved EXCEPT ![t] = output_png]
    /\ wm_pc' = [wm_pc EXCEPT ![t] = "done"]
    /\ UNCHANGED <<workers, temp_img, output_png>>
    /\ UNCHANGED notWm

WmNext == \E t \in Images : WmStart(t) \/ WmWriteTemp(t) \/ WmInpaint(t) \/ WmSave(t)

WmIdle ==
    /\ workers = 1 /\ wm_pc = [t \in Images |-> "done"] /\ temp_img = 0
    /\ output_png = 0 /\ wm_saved = [t \in Images |-> 0]

(***************************************************************************)
(*        PART 5: the probes and what is computed from their results       *)
(***************************************************************************)
MaxDuration == 3

(* Widths and heights of sources: small ones, odd ones, the ratios 3:2 and  *)
(* 67:100 exactly, and values around the canonical 1080 and 1920.           *)
Dimensions == {1, 2, 3, 4, 67, 100, 134, 200, 1000, 1079, 1080, 1500, 1600,
               1919, 1920, 1921, 2160, 3840}

(* The text run_command returned to a probe: nothing, the data asked for,   *)
(* messages of the tool (alone or around the data), and for a JSON probe a  *)
(* document without streams, with a stream that has no width, or one that   *)
(* is not an object.  download.py and s.py merge stderr into the text;      *)
(* process.py returns stdout alone when the tool exits with 0 and appends   *)
(* stderr when it does not.                                                 *)
Outputs == {"", "data", "error", "no_streams", "no_width", "not_dict"}

Functions == {"get_video_dimensions", "has_audio_stream", "has_video_stream",
              "target", "loop"}

(* The files whose transcode target is modelled, and the callers of         *)
(* get_file_duration that loop an audio file.                               *)
TargetSites == {"download", "s", "process", "download_yt"}
LoopSites == {"s_loop", "s_combine", "process_loopaudio", "process_combine"}

NotCalled == [called |-> FALSE, raised |-> "", dims |-> <<0, 0>>, bucket |-> <<0, 0>>,
              bool |-> FALSE, outcome |-> ""]

Returns(r) == [NotCalled EXCEPT !.called = TRUE, !.dims = r]
ReturnsBool(b) == [NotCalled EXCEPT !.called = TRUE, !.bool = b]
Raises(e) == [NotCalled EXCEPT !.called = TRUE, !.raised = e]

(* get_video_dimensions: json.loads and the subscripts are not guarded. *)
get_video_dimensions(ok, out, w, h) ==
    IF ~ok THEN Returns(<<1920, 1080>>)
    ELSE CASE out \in {"", "error"} -> Raises("JSONDecodeError")
           [] out = "not_dict"      -> Raises("AttributeError")
           [] out = "no_streams"    -> Returns(<<1920, 1080>>)
           [] out = "no_width"      -> Raises("KeyError")
           [] OTHER                 -> Returns(<<w, h>>)

(* has_audio_stream, has_video_stream: bool(output.strip()); `success` is   *)
(* not read.                                                                *)
has_stream(ok, out) == ReturnsBool(out # "")

(* width + (width % 2) *)
Even(n) == n + (n % 2)

Min(a, b) == IF a < b THEN a ELSE b

(* A variant of Bucket whose landscape test is `>=`. *)
Bucket_Inclusive(w, h) ==
    IF 2 * w >= 3 * h THEN <<1920, 1080>>
    ELSE IF 100 * w < 67 * h THEN <<1080, 1920>>
    ELSE <<1080, 1080>>

(* The branch chosen from aspect_ratio = width / height, on the rounded     *)
(* dimensions.  The float quotient is above 1.5 exactly when 2w > 3h, and   *)
(* below the float 0.67 exactly when 100w < 67h: a quotient equal to 67/100 *)
(* rounds to the same float as the literal.                                 *)
Bucket(w, h) ==
    IF 2 * w > 3 * h THEN <<1920, 1080>>
    ELSE IF 100 * w < 67 * h THEN <<1080, 1920>>
    ELSE <<1080, 1080>>

(* A variant of Target that uses the canonical dimensions everywhere. *)
Target_Canonical(st, w, h) == Bucket(w, h)

(* target_width, target_height from the rounded dimensions: download.py and *)
(* s.py cap the canonical dimensions by the source's, process.py and        *)
(* Download/download_yt.py use them as they are.                            *)
Target(st, w, h) ==
    LET b == Bucket(w, h) IN
    IF st \in {"download", "s"}
    THEN <<Even(Min(w, b[1])), Even(Min(h, b[2]))>>
    ELSE <<Even(b[1]), Even(b[2])>>

Outcome(o) == [NotCalled EXCEPT !.called = TRUE, !.outcome = o]

(* What the caller does with the durations the probe returned (0: the probe *)
(* yielded no duration); d is the video's or the requested duration.        *)
LoopCount(st, d, a) ==
    IF st \in {"process_loopaudio", "process_combine"}
    THEN IF a = 0 \/ (st = "process_combine" /\ d = 0)
         THEN Outcome("aborted") ELSE Outcome("computed")
    ELSE IF a < d
         THEN IF a = 0 THEN Raises("ZeroDivisionError") ELSE Outcome("computed")
         ELSE IF st = "s_combine" /\ d = 0 THEN Outcome("fallback")
         ELSE Outcome("computed")

ProbeInit ==
    /\ returned = NotCalled
    /\ \/ /\ fn = "get_video_dimensions"
          /\ site \in {"download", "s", "process"}
          /\ probe_success \in BOOLEAN /\ output \in Outputs
          /\ (probe_success => output # "")
          /\ (probe_success /\ site = "process" => output # "error")
          /\ width \in Dimensions /\ height \in Dimensions
          /\ duration = 0 /\ audio_duration = 0
       \/ /\ fn \in {"has_audio_stream", "has_video_stream"}
          /\ site \in {"download", "s", "process"}
          /\ probe_success \in BOOLEAN /\ output \in {"", "data", "error"}
          /\ (probe_success /\ site = "process" => output # "error")
          /\ width = 1 /\ height = 1 /\ duration = 0 /\ audio_duration = 0
       \/ /\ fn = "target"
          /\ site \in TargetSites
          /\ probe_success = TRUE /\ output = "data"
          /\ width \in Dimensions /\ height \in Dimensions
          /\ duration = 0 /\ audio_duration = 0
       \/ /\ fn = "loop"
          /\ site \in LoopSites
          /\ probe_success = TRUE /\ output = "data"
          /\ width = 1 /\ height = 1
          /\ duration \in 0..MaxDuration
          /\ (site \in {"s_loop", "process_loopaudio"} => duration > 0)
          /\ audio_duration \in 0..MaxDuration

Return(r) ==
    /\ ~returned.called
    /\ returned' = r
    /\ UNCHANGED <<fn, site, probe_success, output, width, height, duration, audio_duration>>
    /\ UNCHANGED notProbe

GetVideoDimensions ==
    /\ fn = "get_video_dimensions"
    /\ Return(get_video_dimensions(probe_success, output, width, height))

HasStream ==
    /\ fn \in {"has_audio_stream", "has_video_stream"}
    /\ Return(has_stream(probe_success, output))

TranscodeTarget ==
    /\ fn = "target"
    /\ Return([Returns(Target(site, Even(width), Even(height)))
                 EXCEPT !.bucket = Bucket(Even(width), Even(height))])

Loop ==
    /\ fn = "loop"
    /\ Return(LoopCount(site, duration, audio_duration))

ProbeNext == GetVideoDimensions \/ HasStream \/ TranscodeTarget \/ Loop

ProbeIdle ==
    /\ fn = "target" /\ site = "download" /\ probe_success = TRUE /\ output = "data"
    /\ width = 1 /\ height = 1 /\ duration = 0 /\ audio_duration = 0
    /\ returned = [NotCalled EXCEPT !.called = TRUE]

(***************************************************************************)
(*     PART 6: the combined tier of download.py and its output files       *)
(***************************************************************************)
MaxItems == 2

Titles == {"a", "b"}

(* video_title = f"Untitled_{index + 1}" *)
Untitled(i) ==
    CASE i = 1 -> "Untitled_1"
      [] i = 2 -> "Untitled_2"
      [] OTHER -> "Untitled_n"

Codecs == {"h264", "aac", "other", "None"}

(* The output name with number n and title t; ext is "mp4" or "thumb". *)
Name(n, t, ext) == [num |-> n, title |-> t, ext |-> ext]

RECURSIVE next_free(_, _, _)

(* The while loop of get_next_available_name with a title. *)
next_free(fs, t, n) ==
    IF Name(n, t, "mp4") \notin fs /\ Name(n, t, "thumb") \notin fs THEN n
    ELSE next_free(fs, t, n + 1)

(* A variant of Passthrough that looks at the video codec alone. *)
Passthrough_VideoOnly(vc, ac) == vc = "h264"

(* `video_codec == 'h264' and (audio_codec == 'aac' or not audio_codec)` *)
Passthrough(vc, ac) == vc = "h264" /\ (ac = "aac" \/ ac = "None")

NoItem == [title_fetched |-> FALSE, title |-> "", num |-> 0, fetch |-> "",
           video_codec |-> "None", audio_codec |-> "None", how |-> "",
           fin |-> "", thumb |-> "", recorded |-> FALSE, raised |-> FALSE]

TierInit ==
    /\ o_keep \in BOOLEAN
    /\ o_items \in 1..MaxItems
    /\ o_stage = "head"
    /\ o_done = <<>>
    /\ o_item = NoItem
    /\ current_o_number = 1
    /\ output_dir = {}
    /\ partial = {}
    /\ o_temps = {}

TierStep(st, it, n, fs, pt, tm) ==
    /\ o_stage' = st
    /\ o_item' = it
    /\ current_o_number' = n
    /\ output_dir' = fs
    /\ partial' = pt
    /\ o_temps' = tm
    /\ UNCHANGED <<o_keep, o_items, o_done>>
    /\ UNCHANGED notTier

(* The head of the loop body: the title query, then the first allocation. *)
OHead ==
    /\ o_stage = "head"
    /\ \E tf \in BOOLEAN, t \in Titles :
        LET title == IF tf THEN t ELSE Untitled(Len(o_done) + 1)
            n == next_free(output_dir, title, current_o_number)
        IN TierStep("fetch",
                    [NoItem EXCEPT !.title_fetched = tf, !.title = title, !.num = n],
                    n + 1, output_dir, partial, {})

(* The combined fetch; without a fetched title the name is allocated again  *)
(* with the title found in the fetch's output.                              *)
OFetch ==
    /\ o_stage = "fetch"
    /\ \E f \in [success : BOOLEAN, wrote : BOOLEAN, thumb : BOOLEAN],
          t \in Titles \cup {o_item.title} :
        LET tm == If(f.wrote, {temp_file}) \cup If(f.thumb, {temp_thumbnail}) IN
        IF f.success /\ f.wrote
        THEN IF o_item.title_fetched
             THEN TierStep("finalize", [o_item EXCEPT !.fetch = "ok"],
                           current_o_number, output_dir, partial, tm)
             ELSE LET n == next_free(output_dir, t, current_o_number) IN
                  TierStep("finalize",
                           [o_item EXCEPT !.fetch = "ok", !.title = t, !.num = n],
                           n + 1, output_dir, partial, tm)
        ELSE TierStep("finally", [o_item EXCEPT !.fetch = "failed"],
                      current_o_number, output_dir, partial, tm \ {temp_thumbnail})

(* The fetched file becomes the output: by os.rename, or by a transcode     *)
(* that may fail after it has written a part of the output.                 *)
OFinalize ==
    /\ o_stage = "finalize"
    /\ \E vc \in Codecs \ {"aac"}, ac \in Codecs \ {"h264"},
          res \in {"ok", "exc", "fail", "fail_partial"} :
        LET rename == o_keep /\ Passthrough(vc, ac)
            out == Name(o_item.num, o_item.title, "mp4")
            it == [o_item EXCEPT !.video_codec = IF o_keep THEN vc ELSE "None",
                                 !.audio_codec = IF o_keep THEN ac ELSE "None",
                                 !.how = IF rename THEN "rename" ELSE "transcode",
                                 !.fin = res]
        IN
        /\ (rename => res \in {"ok", "exc"})
        /\ (~rename => res # "exc")
        /\ (~o_keep => vc = "None" /\ ac = "None")
        /\ CASE res = "ok" ->
                  TierStep("thumbnail", it, current_o_number,
                           output_dir \cup {out}, partial, o_temps \ {temp_file})
             [] res = "exc" ->
                  TierStep("finally", [it EXCEPT !.raised = TRUE], current_o_number,
                           output_dir, partial, o_temps)
             [] res = "fail" ->
                  TierStep("thumbnail", it, current_o_number, output_dir, partial,
                           o_temps \ {temp_file, temp_thumbnail})
             [] OTHER ->
                  TierStep("thumbnail", it, current_o_number,
                           output_dir \cup {out}, partial \cup {out},
                           o_temps \ {temp_file, temp_thumbnail})

(* The thumbnail is renamed to its sidecar path; when that raises, the      *)
(* handler removes it, and that os.remove is not guarded.  Then the letter  *)
(* is appended.                                                             *)
OThumbnail ==
    /\ o_stage = "thumbnail"
    /\ \E res \in {"none", "renamed", "removed", "remove_raised"} :
        /\ (res = "none") = (temp_thumbnail \notin o_temps)
        /\ CASE res = "none" ->
                  TierStep("finally", [o_item EXCEPT !.thumb = res, !.recorded = TRUE],
                           current_o_number, output_dir, partial, o_temps)
             [] res = "renamed" ->
                  TierStep("finally", [o_item EXCEPT !.thumb = res, !.recorded = TRUE],
                           current_o_number,
                           output_dir \cup {Name(o_item.num, o_item.title, "thumb")},
                           partial, o_temps \ {temp_thumbnail})
             [] res = "removed" ->
                  TierStep("finally", [o_item EXCEPT !.thumb = res, !.recorded = TRUE],
                           current_o_number, output_dir, partial,
                           o_temps \ {temp_thumbnail})
             [] OTHER ->
                  TierStep("finally", [o_item EXCEPT !.thumb = res, !.raised = TRUE],
                           current_o_number, output_dir, partial, o_temps)

(* except / finally of the loop body, then the next item. *)
OFinally ==
    /\ o_stage = "finally"
    /\ o_done' = Append(o_done, [num |-> o_item.num, fetch |-> o_item.fetch,
                                 fin |-> o_item.fin, recorded |-> o_item.recorded,
                                 raised |-> o_item.raised])
    /\ o_stage' = IF Len(o_done) + 1 < o_items THEN "head" ELSE "end"
    /\ o_temps' \in IF o_item.thumb = "remove_raised" THEN {{}, o_temps} ELSE {{}}
    /\ o_item' = NoItem
    /\ UNCHANGED <<o_keep, o_items, current_o_number, output_dir, partial>>
    /\ UNCHANGED notTier

TierNext == OHead \/ OFetch \/ OFinalize \/ OThumbnail \/ OFinally

TierIdle ==
    /\ o_keep = FALSE /\ o_items = 1 /\ o_stage = "end" /\ o_done = <<>>
    /\ o_item = NoItem /\ current_o_number = 1 /\ output_dir = {} /\ partial = {}
    /\ o_temps = {}

(***************************************************************************)
(*                      PART 7: sanitize_filename                          *)
(***************************************************************************)
MaxLen == 4

(* The length of the slice `sanitized[:200]`, scaled down so that the       *)
(* filenames of the model reach it.                                         *)
Limit == 3

(* "<" stands for the characters of invalid_chars, " " for whitespace. *)
Chars == {"a", "<", " ", ".", "_"}

Filenames == UNION { [1..n -> Chars] : n \in 0..MaxLen }

SanSites == {"download", "process", "s", "download_yt"}

RECURSIVE lstrip(_, _)
lstrip(str, cs) ==
    IF str # <<>> /\ Head(str) \in cs THEN lstrip(Tail(str), cs) ELSE str

RECURSIVE rstrip(_, _)
rstrip(str, cs) ==
    IF str # <<>> /\ str[Len(str)] \in cs
    THEN rstrip(SubSeq(str, 1, Len(str) - 1), cs) ELSE str

(* re.sub(invalid_chars, '_', filename) *)
sub_invalid(str) == [i \in 1..Len(str) |-> IF str[i] = "<" THEN "_" ELSE str[i]]

RECURSIVE sub_spaces(_)
(* re.sub(r'\s+', '_', str): each run of whitespace becomes one underscore. *)
sub_spaces(str) ==
    IF str = <<>> THEN <<>>
    ELSE IF Head(str) = " "
         THEN <<"_">> \o sub_spaces(lstrip(str, {" "}))
         ELSE <<Head(str)>> \o sub_spaces(Tail(str))

(* A variant of sanitize_filename without the lstrip, as in                 *)
(* Download/download_yt.py.                                                 *)
sanitize_NoLstrip(st, str) ==
    LET a == sub_invalid(str)
        b == sub_spaces(rstrip(lstrip(a, {" "}), {" "}))
    IN SubSeq(b, 1, Min(Len(b), Limit))

(* sanitize_filename of download.py, process.py and s.py; the one of        *)
(* Download/download_yt.py has no lstrip.                                   *)
sanitize_filename(st, str) ==
    LET a == sub_invalid(str)
        b == sub_spaces(rstrip(lstrip(a, {" "}), {" "}))
        c == IF st = "download_yt" THEN b ELSE lstrip(b, {".", "_"})
    IN SubSeq(c, 1, Min(Len(c), Limit))

SanInit ==
    /\ san_site \in SanSites
    /\ filename \in Filenames
    /\ sanitized = <<"?">>

Sanitize ==
    /\ sanitized = <<"?">>
    /\ sanitized' = sanitize_filename(san_site, filename)
    /\ UNCHANGED <<san_site, filename>>
    /\ UNCHANGED notSan

SanNext == Sanitize

SanIdle == san_site = "download" /\ filename = <<>> /\ sanitized = <<>>

(***************************************************************************)
(*                  PART 8: batch conversion of input input_files                *)
(***************************************************************************)
MaxInputs == 2
MaxOutput == 3

ConvScripts == {"process", "s", "convert"}

(* The conversion logs a former run can have left: nothing, or one entry of *)
(* an input and of the output number it had then.                           *)
Logs == {<<>>} \cup {<<[input |-> i, output |-> n]>> : i \in 1..MaxInputs, n \in 1..MaxOutput}

RECURSIVE get_existing_conversion(_, _)

(* The output of the first entry of the log whose input_path is the input   *)
(* (0: None).                                                               *)
get_existing_conversion(log, i) ==
    IF log = <<>> THEN 0
    ELSE IF Head(log).input = i THEN Head(log).output
    ELSE get_existing_conversion(Tail(log), i)

RECURSIVE next_number(_, _)

(* get_next_available_name of Convert/convert.py. *)
next_number(outs, n) == IF n \notin outs THEN n ELSE next_number(outs, n + 1)

(* What a failed conversion does to the loop: process.py calls sys.exit(1). *)
AfterFailure(sc) == IF sc = "process" THEN "exited" ELSE "loop"

ConvInit ==
    /\ conv_script \in ConvScripts
    /\ input_files \in 1..MaxInputs
    /\ conv_run = 1
    /\ conv_index = 1
    /\ conv_stage = "loop"
    /\ attempted = {}
    /\ converted = {}
    /\ again = {}
    /\ log_data \in IF conv_script = "convert" THEN Logs ELSE {<<>>}
    /\ \A k \in 1..Len(log_data) : log_data[k].input <= input_files
    /\ outputs \in IF conv_script = "convert" THEN SUBSET (1..MaxOutput) ELSE {{}}
    /\ video_count = 1

(* The body of the loop for one input file. *)
ConvertFile ==
    /\ conv_stage = "loop" /\ conv_index <= input_files
    /\ \E success \in BOOLEAN :
        LET existing == get_existing_conversion(log_data, conv_index)
            skip == conv_script = "convert" /\ existing # 0 /\ existing \in outputs
            n == next_number(outputs, video_count)
        IN IF skip
           THEN /\ success
                /\ UNCHANGED <<attempted, converted, again, log_data, outputs,
                               video_count, conv_stage>>
           ELSE /\ attempted' = attempted \cup {conv_index}
                /\ again' = IF conv_run = 2 THEN again \cup {conv_index} ELSE again
                /\ converted' = IF conv_run = 1 /\ success
                                THEN converted \cup {conv_index} ELSE converted
                /\ outputs' = IF success THEN outputs \cup {n} ELSE outputs
                /\ log_data' = IF success /\ conv_script = "convert"
                               THEN Append(log_data, [input |-> conv_index, output |-> n])
                               ELSE log_data
                /\ video_count' = IF conv_script # "process" THEN n + 1
                                  ELSE IF success THEN video_count + 1
                                  ELSE video_count
                /\ conv_stage' = IF success THEN "loop" ELSE AfterFailure(conv_script)
    /\ conv_index' = conv_index + 1
    /\ UNCHANGED <<conv_script, input_files, conv_run>>
    /\ UNCHANGED notConv

(* The loop has gone through the list. *)
ConvDone ==
    /\ conv_stage = "loop" /\ conv_index > input_files
    /\ conv_stage' = "end"
    /\ UNCHANGED <<conv_script, input_files, conv_run, conv_index, attempted, converted,
                   again, log_data, outputs, video_count>>
    /\ UNCHANGED notConv

(* Convert/convert.py is run again with the same arguments. *)
ConvAgain ==
    /\ conv_script = "convert" /\ conv_stage = "end" /\ conv_run = 1
    /\ conv_run' = 2
    /\ conv_index' = 1
    /\ conv_stage' = "loop"
    /\ attempted' = {}
    /\ video_count' = 1
    /\ UNCHANGED <<conv_script, input_files, converted, again, log_data, outputs>>
    /\ UNCHANGED notConv

ConvNext == ConvertFile \/ ConvDone \/ ConvAgain

ConvIdle ==
    /\ conv_script = "s" /\ input_files = 1 /\ conv_run = 1 /\ conv_index = 2
    /\ conv_stage = "end" /\ attempted = {} /\ converted = {} /\ again = {}
    /\ log_data = <<>> /\ outputs = {} /\ video_count = 1

(***************************************************************************)
(*                PART 9: the 'split' submode of download.py               *)
(***************************************************************************)
MaxSplit == 2

(* A local variable that no statement has assigned yet. *)
Unbound == 0

SplitInit ==
    /\ split_urls \in 1..MaxSplit
    /\ split_index = 1
    /\ split_stage = "loop"
    /\ audio_output_path = Unbound
    /\ split_done = <<>>
    /\ audio_files = {}

(* audio_output_path is assigned only where the title was not fetched; a    *)
(* local that was never assigned raises UnboundLocalError where it is read. *)
SplitPath(title_fetched, fetched, old, i) ==
    IF fetched /\ ~title_fetched THEN i ELSE old

(* The letters appended to processed_urls[url] when the remux succeeded. *)
SplitLetters == <<"O", "A">>

(* One iteration of the loop in the split submode. *)
SplitUrl ==
    /\ split_stage = "loop" /\ split_index <= split_urls
    /\ \E title_fetched, fetched, remuxed, has_audio, extracted \in BOOLEAN :
        LET path == SplitPath(title_fetched, fetched, audio_output_path, split_index)
            reads == fetched /\ remuxed /\ has_audio
            raises == reads /\ path = Unbound
            item == [title_fetched |-> title_fetched, fetched |-> fetched,
                     remuxed |-> fetched /\ remuxed,
                     has_audio |-> reads,
                     extracted |-> reads /\ ~raises /\ extracted,
                     path |-> IF reads THEN path ELSE Unbound,
                     raised |-> raises,
                     letters |-> IF fetched /\ remuxed /\ ~raises
                                 THEN SplitLetters ELSE <<>>]
        IN /\ (~fetched => remuxed /\ has_audio /\ extracted)
           /\ (~remuxed => has_audio /\ extracted)
           /\ (~has_audio => extracted)
           /\ audio_output_path' = path
           /\ audio_files' = IF item.extracted THEN audio_files \cup {path}
                             ELSE audio_files
           /\ split_done' = Append(split_done, item)
           /\ split_stage' = IF raises THEN "crashed" ELSE "loop"
    /\ split_index' = split_index + 1
    /\ UNCHANGED split_urls
    /\ UNCHANGED notSplit

(* The loop has gone through the list. *)
SplitEnd ==
    /\ split_stage = "loop" /\ split_index > split_urls
    /\ split_stage' = "end"
    /\ UNCHANGED <<split_urls, split_index, audio_output_path, split_done, audio_files>>
    /\ UNCHANGED notSplit

SplitNext == SplitUrl \/ SplitEnd

SplitIdle ==
    /\ split_urls = 1 /\ split_index = 2 /\ split_stage = "end"
    /\ audio_output_path = Unbound /\ split_done = <<>> /\ audio_files = {}

(***************************************************************************)
(*            PART 10: the selection of files in Combine/combine.py        *)
(***************************************************************************)
(* A file of the input directory: its name, whether it can be read and the  *)
(* streams ffprobe reports for it.                                          *)
InputFile(n) == [name : {n}, readable : BOOLEAN, has_video : BOOLEAN, has_audio : BOOLEAN]

CombInit ==
    /\ \E n \in {<<"a", "b">>, <<"b", "a">>} :
          listing \in {<<x, y>> : x \in InputFile(n[1]), y \in InputFile(n[2])}
    /\ comb_index = 1
    /\ comb_stage = "access"
    /\ video_file = "None"
    /\ audio_file = "None"

(* The readability of the two files is validated. *)
CombAccess ==
    /\ comb_stage = "access"
    /\ comb_stage' = IF \A i \in 1..Len(listing) : listing[i].readable
                     THEN "classify" ELSE "exit"
    /\ UNCHANGED <<listing, comb_index, video_file, audio_file>>
    /\ UNCHANGED notComb

(* One file is classified: the first file with a video stream is the video  *)
(* file, the first other file with an audio stream is the audio file.       *)
CombClassify ==
    /\ comb_stage = "classify" /\ comb_index <= Len(listing)
    /\ LET f == listing[comb_index]
       IN IF f.has_video /\ video_file = "None"
          THEN /\ video_file' = f.name
               /\ UNCHANGED <<audio_file, comb_stage>>
          ELSE IF f.has_audio /\ audio_file = "None"
          THEN /\ audio_file' = f.name
               /\ UNCHANGED <<video_file, comb_stage>>
          ELSE /\ comb_stage' = "exit"
               /\ UNCHANGED <<video_file, audio_file>>
    /\ comb_index' = comb_index + 1
    /\ UNCHANGED listing
    /\ UNCHANGED notComb

(* After the loop: both files have to be selected. *)
CombSelected ==
    /\ comb_stage = "classify" /\ comb_index > Len(listing)
    /\ comb_stage' = IF video_file = "None" \/ audio_file = "None"
                     THEN "exit" ELSE "combine"
    /\ UNCHANGED <<listing, comb_index, video_file, audio_file>>
    /\ UNCHANGED notComb

CombNext == CombAccess \/ CombClassify \/ CombSelected

CombIdle ==
    /\ listing = <<>> /\ comb_index = 1 /\ comb_stage = "exit"
    /\ video_file = "None" /\ audio_file = "None"

(***************************************************************************)
(*        PART 11: move_file and move_or_copy_file of the rename scripts   *)
(***************************************************************************)
MaxCounter == 1

(* The default of the retries argument; no caller passes another value. *)
MoveRetries == 3

MoveFunctions == {"move_file", "move_or_copy_file"}

RECURSIVE free_dest(_, _)

(* while os.path.exists(dest): dest = f"{base}_{counter}{ext}" *)
free_dest(ds, n) == IF n \notin ds THEN n ELSE free_dest(ds, n + 1)

(* Whether the source is gone after the file has been placed at dest: *)
(* apply_metadata writes dest from the source with ffmpeg and leaves  *)
(* the source; shutil.move removes it; shutil.copy2 leaves it.        *)
SourceRemoved(with_metadata, copy) == ~with_metadata /\ ~copy

MoveInit ==
    /\ move_fn \in MoveFunctions
    /\ copy_flag \in IF move_fn = "move_file" THEN {FALSE} ELSE BOOLEAN
    /\ apply_metadata_flag \in BOOLEAN
    /\ metadata_dict \in BOOLEAN
    /\ src_exists \in BOOLEAN
    /\ dests \in SUBSET (0..MaxCounter)
    /\ dests_before = dests
    /\ move_attempt = 0
    /\ move_stage = "call"
    /\ move_ret = 0

(* The source does not exist: FileNotFoundError before the loop. *)
MoveNoSource ==
    /\ move_stage = "call" /\ move_attempt = 0 /\ ~src_exists
    /\ move_stage' = "raised"
    /\ UNCHANGED <<move_fn, copy_flag, apply_metadata_flag, metadata_dict, src_exists,
                   dests, dests_before, move_attempt, move_ret>>
    /\ UNCHANGED notMove

(* One attempt of the loop: the file is locked, or it is placed at the      *)
(* first free destination, or the move or copy raises an OSError.           *)
MoveAttempt ==
    /\ move_stage = "call" /\ src_exists /\ move_attempt < MoveRetries
    /\ move_attempt' = move_attempt + 1
    /\ \E locked, applied, moved \in BOOLEAN :
        LET dest == free_dest(dests, 0)
            with_metadata == apply_metadata_flag /\ metadata_dict /\ applied
        IN /\ (locked => applied /\ moved)
           /\ (~(apply_metadata_flag /\ metadata_dict) => applied)
           /\ (with_metadata => moved)
           /\ IF locked \/ (~with_metadata /\ ~moved)
              THEN UNCHANGED <<src_exists, dests, move_stage, move_ret>>
              ELSE /\ dests' = dests \cup {dest}
                   /\ src_exists' = ~SourceRemoved(with_metadata, copy_flag)
                   /\ move_ret' = dest
                   /\ move_stage' = "returned"
    /\ UNCHANGED <<move_fn, copy_flag, apply_metadata_flag, metadata_dict, dests_before>>
    /\ UNCHANGED notMove

(* No attempt is left: IOError. *)
MoveExhausted ==
    /\ move_stage = "call" /\ src_exists /\ move_attempt >= MoveRetries
    /\ move_stage' = "raised"
    /\ UNCHANGED <<move_fn, copy_flag, apply_metadata_flag, metadata_dict, src_exists,
                   dests, dests_before, move_attempt, move_ret>>
    /\ UNCHANGED notMove

MoveNext == MoveNoSource \/ MoveAttempt \/ MoveExhausted

MoveIdle ==
    /\ move_fn = "move_file" /\ copy_flag = FALSE /\ apply_metadata_flag = FALSE
    /\ metadata_dict = FALSE /\ src_exists = FALSE /\ dests = {} /\ dests_before = {}
    /\ move_attempt = 0 /\ move_stage = "raised" /\ move_ret = 0

----------------------------------------------------------------------------
RunIdle ==
    /\ variant = "download" /\ suppress_errors = FALSE /\ timeout = FALSE
    /\ retries = 0 /\ attempt = 0 /\ pc = "done"
    /\ process = [beh |-> NoProcess, status |-> "none"]
    /\ spawned = 0 /\ outcomes = <<>> /\ result = "None"
    /\ untouched = FALSE /\ allLate = TRUE

BatchIdle ==
    /\ script = "download" /\ submode = "all" /\ keep_original = FALSE
    /\ audio_only = FALSE /\ unique_urls = <<>> /\ index = 1 /\ stage = "end"
    /\ urls = <<>> /\ removed = 0 /\ started = <<>> /\ run = 1
    /\ first_run = [u \in Urls |-> <<>>] /\ orig_kind = "none"
    /\ failed_fetch_used = FALSE
    /\ processed_urls = [u \in Urls |-> <<>>] /\ temps = {}
    /\ any_success = FALSE /\ video_downloaded_path = FALSE /\ attempts = <<>>
    /\ reported = FALSE /\ aFile = "unset" /\ aFinal = FALSE /\ raised = FALSE

InitRun == RunInit /\ BatchIdle /\ AllocIdle /\ WmIdle /\ ProbeIdle /\ TierIdle /\ SanIdle /\ ConvIdle /\ SplitIdle /\ CombIdle /\ MoveIdle

SpecRun == InitRun /\ [][RunNext]_vars

BatchNext == BatchNextDl \/ BatchNextS

InitBatch == BatchInit /\ RunIdle /\ AllocIdle /\ WmIdle /\ ProbeIdle /\ TierIdle /\ SanIdle /\ ConvIdle /\ SplitIdle /\ CombIdle /\ MoveIdle

(* The program is started again on the same URL file and output directory:  *)
(* processed_urls is a new empty dict, the disk is as the first run left it.*)
Rerun ==
    /\ stage = "end" /\ run = 1
    /\ run' = 2
    /\ first_run' = processed_urls
    /\ processed_urls' = [u \in Urls |-> <<>>]
    /\ index' = 1
    /\ stage' = "start"
    /\ started' = <<>>
    /\ UNCHANGED <<script, submode, keep_original, audio_only, unique_urls, temps,
                   any_success, video_downloaded_path, attempts, reported, aFile,
                   aFinal, raised, urls, removed, orig_kind, failed_fetch_used>>
    /\ UNCHANGED notBatch

RerunNext == BatchNext \/ Rerun

InitRerun == InitBatch /\ Len(urls) <= MaxRerunUrls

InitAlloc == AllocInit /\ RunIdle /\ BatchIdle /\ WmIdle /\ ProbeIdle /\ TierIdle /\ SanIdle /\ ConvIdle /\ SplitIdle /\ CombIdle /\ MoveIdle

SpecAlloc == InitAlloc /\ [][AllocNext]_vars

InitWm == WmInit /\ RunIdle /\ BatchIdle /\ AllocIdle /\ ProbeIdle /\ TierIdle /\ SanIdle /\ ConvIdle /\ SplitIdle /\ CombIdle /\ MoveIdle

SpecWm == InitWm /\ [][WmNext]_vars

SpecRerun == InitRerun /\ [][RerunNext]_vars

SpecBatch == InitBatch /\ [][BatchNext]_vars

InitProbe == ProbeInit /\ RunIdle /\ BatchIdle /\ AllocIdle /\ WmIdle /\ TierIdle /\ SanIdle /\ ConvIdle /\ SplitIdle /\ CombIdle /\ MoveIdle

SpecProbe == InitProbe /\ [][ProbeNext]_vars

InitTier == TierInit /\ RunIdle /\ BatchIdle /\ AllocIdle /\ WmIdle /\ ProbeIdle /\ SanIdle /\ ConvIdle /\ SplitIdle /\ CombIdle /\ MoveIdle

SpecTier == InitTier /\ [][TierNext]_vars

InitSan == SanInit /\ RunIdle /\ BatchIdle /\ AllocIdle /\ WmIdle /\ ProbeIdle /\ TierIdle /\ ConvIdle /\ SplitIdle /\ CombIdle /\ MoveIdle

SpecSan == InitSan /\ [][SanNext]_vars

InitConv == ConvInit /\ RunIdle /\ BatchIdle /\ AllocIdle /\ WmIdle /\ ProbeIdle /\ TierIdle /\ SanIdle /\ SplitIdle /\ CombIdle /\ MoveIdle

SpecConv == InitConv /\ [][ConvNext]_vars

InitSplit == SplitInit /\ RunIdle /\ BatchIdle /\ AllocIdle /\ WmIdle /\ ProbeIdle /\ TierIdle /\ SanIdle /\ ConvIdle /\ CombIdle /\ MoveIdle

SpecSplit == InitSplit /\ [][SplitNext]_vars

InitComb == CombInit /\ RunIdle /\ BatchIdle /\ AllocIdle /\ WmIdle /\ ProbeIdle /\ TierIdle /\ SanIdle /\ ConvIdle /\ SplitIdle /\ MoveIdle

SpecComb == InitComb /\ [][CombNext]_vars

InitMove == MoveInit /\ RunIdle /\ BatchIdle /\ AllocIdle /\ WmIdle /\ ProbeIdle /\ TierIdle /\ SanIdle /\ ConvIdle /\ SplitIdle /\ CombIdle

SpecMove == InitMove /\ [][MoveNext]_vars

(***************************************************************************)
(*                Properties of the batch loop (SpecBatch)                 *)
(***************************************************************************)
\* The item whose processing the per-item variables describe has ended.
ItemEnded == stage \in {"end", "crashed"} \/ (stage = "start" /\ index > 1)

\* The letters recorded for the current item.
Acquired == Letters(processed_urls[url])

Ordered(rank(_)) ==
    \A i, j \in 1..Len(attempts) : i < j => rank(attempts[i]) <= rank(attempts[j])

ClaimedRank(l) ==
    CASE l = "O" -> 1 [] l \in {"P", "p"} -> 2 [] l = "V" -> 3 [] l = "A" -> 4

TierRank(l) ==
    IF script = "download"
    THEN CASE l = "O" -> 1 [] l = "A" -> 2 [] l = "V" -> 3 [] l = "P" -> 4
    ELSE CASE l = "p" -> 0 [] l = "O" -> 1 [] l = "P" -> 2 [] l = "V" -> 3 [] l = "A" -> 4

\* C1 (as claimed): in the multi-tier modes the fetches made for an item
\* follow the order Original, Picture, Video-only, Audio-only: no tier is
\* attempted after a tier that comes later in this order.
C1_ClaimedOrder == Ordered(ClaimedRank)

\* C1 (amended): the fetches made for an item follow one fixed order per
\* script: in download.py Original, Audio-only, Video-only, Picture; in s.py
\* Original, Picture, Video-only, Audio-only, preceded in plain 'all' mode on
\* an image platform by one extra Picture attempt.  No tier is attempted
\* after a tier that comes later in the script's order.
C1_ScriptOrder == Ordered(TierRank)

C1_Witness ==
    /\ script = "download" /\ ~audio_only /\ stage = "report"
    /\ attempts = <<"O", "A", "V", "P">>

\* C2 (as claimed): in plain 'all' mode, when the processing of an item has
\* ended its acquired-tier set holds at most one of Original, Picture, Video,
\* Audio.
C2_AtMostOneTier ==
    (submode = "all" /\ stage \in {"finally", "end", "crashed"})
    => Cardinality(Acquired) <= 1

\* C2 (amended): in plain 'all' mode, s.py attempts no tier after one
\* succeeded, so an item's acquired-tier set holds at most one tier; in
\* download.py a recorded Original, Video or Picture ends the acquisition but
\* a recorded Audio does not stop the Video-only and Picture tiers, so the set
\* holds at most one of Original, Video, Picture, Original only on its own,
\* and Audio possibly next to Video or Picture.
C2_StopsAfterSuccess ==
    (submode = "all" /\ stage \in {"finally", "end", "crashed"})
    => /\ Cardinality(Acquired \cap {"O", "V", "P"}) <= 1
       /\ ("O" \in Acquired => Acquired = {"O"})
       /\ (script = "s" => Cardinality(Acquired) <= 1)

C2_Witness ==
    /\ script = "download" /\ submode = "all" /\ ~audio_only /\ stage = "end"
    /\ Acquired = {"A", "V"} /\ attempts = <<"O", "A", "V">>

\* C3: in plain 'all' mode, when the audio-only fetch returns a file and its
\* finalization succeeds, a file with a video and an audio stream is recorded
\* as Original and not as Audio, a file with a video stream and no audio
\* stream is recorded as Video and not as Audio, and Audio is recorded only
\* for a file without a video stream.
C3_Reclassified ==
    (submode = "all" /\ ~audio_only /\ stage \in {"finally", "end", "crashed"})
    => /\ (aFinal /\ aFile = "av" => "O" \in Acquired /\ "A" \notin Acquired)
       /\ (aFinal /\ aFile = "v" => "V" \in Acquired /\ "A" \notin Acquired)
       /\ ("A" \in Acquired => aFinal /\ ~has_video_stream(aFile))

C3_Witness ==
    /\ script = "s" /\ submode = "all" /\ stage = "end"
    /\ attempts = <<"O", "P", "V", "A">>
    /\ aFile = "av" /\ aFinal /\ Acquired = {"O"}

\* C4: "No content could be downloaded" is printed for an item only after
\* each of the tiers Original, Audio-only, Video-only and Picture was
\* attempted for it (and failed).
C4_ReportAfterEveryTier ==
    (reported /\ stage \in {"finally", "end"})
    => {"O", "A", "V", "P"} \subseteq Letters(attempts)

(***************************************************************************)
(*                  Properties of run_command (SpecRun)                    *)
(***************************************************************************)
Last(s) == s[Len(s)]

\* C5: for every retries value r and a command that is still running at its
\* timeout on every attempt, run_command (download.py, process.py, s.py)
\* spawns it exactly r+1 times and then returns the timed-out failure.
C5_AlwaysTimingOut ==
    (variant \in RetryVariants /\ timeout /\ allLate /\ spawned >= 1
        /\ pc \in {"done", "blocked"})
    => (pc = "done" /\ spawned = retries + 1 /\ result = "TimedOut")

\* C6 (as claimed): when attempts 1..k-1 fail, by timeout or by non-zero exit,
\* and k <= r+1, a k-th attempt is made (no failure is returned while attempts
\* remain), and an attempt that exits 0 ends the call with success after
\* exactly that many invocations.
C6_SuccessAtK ==
    variant \in {"download", "process"} =>
        /\ (pc = "done" /\ result \in {"Failed", "TimedOut"} => spawned = retries + 1)
        /\ \A k \in 1..Len(outcomes) :
              outcomes[k] = "Success" =>
                  k = Len(outcomes) /\ pc = "done" /\ result = "Success" /\ spawned = k

\* C6 (amended): when attempts 1..k-1 each end in a timeout raised by
\* run_command and the k-th attempt exits 0 with no timeout raised, k <= r+1,
\* run_command returns success after exactly k invocations and spawns nothing
\* after the success; a timed-out failure is returned only after r+1 attempts.
C6_SuccessAfterTimeouts ==
    variant \in {"download", "process"} =>
        /\ (pc = "done" /\ result = "TimedOut" =>
                spawned = retries + 1 /\ \A j \in 1..Len(outcomes) : outcomes[j] = "TimedOut")
        /\ \A k \in 1..Len(outcomes) :
              outcomes[k] = "Success" =>
                  /\ k = Len(outcomes) /\ k <= retries + 1
                  /\ pc = "done" /\ result = "Success" /\ spawned = k
                  /\ \A j \in 1..(k - 1) : outcomes[j] = "TimedOut"

C6_Witness ==
    /\ variant = "download" /\ pc = "done" /\ result = "Success"
    /\ retries = 2 /\ spawned = 2 /\ outcomes = <<"TimedOut", "Success">>

\* C7 (as claimed): an attempt that exits non-zero without timing out is
\* re-attempted while fewer than r+1 attempts were made, so the failure
\* result of a non-zero exit is returned only after r+1 invocations.
C7_NonZeroRetried ==
    (variant \in {"download", "process"} /\ pc = "done" /\ result = "Failed")
    => spawned = retries + 1

\* C7 (amended): an attempt that ends with a non-zero exit code without a
\* timeout being raised ends the call at once with the failure result,
\* whatever is left of the retry budget; a command that exits non-zero on its
\* first attempt is invoked exactly once.
C7_NonZeroReturnsAtOnce ==
    \A k \in 1..Len(outcomes) :
        outcomes[k] = "Failed" =>
            k = Len(outcomes) /\ pc = "done" /\ result = "Failed" /\ spawned = k

C7_Witness ==
    /\ variant = "process" /\ pc = "done" /\ result = "Failed"
    /\ retries = 2 /\ spawned = 1 /\ attempt = 0

\* C8: whenever a timeout is given and the child is still running when it
\* elapses, run_command (download.py, s.py, Download_yt/download_yt.py)
\* signals the child and classifies the attempt as timed out, whatever the
\* child does and whatever suppress_errors is; it never blocks for ever.
C8_TimeoutEnforced ==
    (variant \in {"download", "s", "download_yt"} /\ timeout
        /\ process.status # "none" /\ process.beh.late /\ pc # "try")
    => /\ pc # "blocked"
       /\ process.status \in {"sigterm", "sigkill"}
       /\ (pc = "except_timeout" \/ (outcomes # <<>> /\ Last(outcomes) = "TimedOut"))

\* C9: on every return path of run_command (download.py, s.py, process.py,
\* Combine/combine.py) every child spawned by the call has exited or has been
\* sent a terminate or kill signal.
C9_NoChildLeftRunning ==
    (variant \in {"download", "s", "process", "combine"} /\ pc = "done")
    => (~untouched /\ process.status # "running")

C9_Witness ==
    /\ variant = "download" /\ pc = "done" /\ result = "Error"
    /\ process.status = "terminated"

\* C10: once the processing of an item has ended (by success, by failure or
\* by an exception) none of the fixed-name temporary paths exists on disk.
C10_NoTempLeft == ItemEnded => temps = {}

\* The fixed-name temporary artifacts of a tier attempt.
TierTemps == {temp_file, temp_audio_file, temp_thumbnail, temp_audio_thumbnail,
              temp_image_dir}

\* C11: when a tier's fetch is started for an item for which an earlier tier
\* was already attempted, no temporary artifact of the earlier attempts (temp
\* media file, temp audio file, temp thumbnails, temp image directory) exists.
C11_CleanBeforeNextTier ==
    [][(attempts # <<>> /\ Len(attempts') > Len(attempts))
          => temps \cap TierTemps = {}]_vars

\* C12: an item that raises an exception or fails in every tier does not end
\* the batch: the loop is left only after the last item of the list.
C12_BatchNeverAborts == stage = "crashed" => index = Len(unique_urls)

\* C17 (as claimed): in all+a and all+a+v, once Original is recorded for an
\* item the fetch tool is not invoked again for that item.
C17_NoFetchAfterOriginal ==
    [][(submode \in {"all+a", "all+a+v"} /\ stage \notin {"start", "end", "crashed"}
          /\ Has(processed_urls[url], "O"))
        => attempts' = attempts]_vars

\* C17 (amended): in all+a and all+a+v, once Original is recorded for an item
\* and the acquired file has an audio stream, the separate audio is produced
\* by a local re-encode of that file and the fetch tool is not invoked again
\* for the item; when the acquired Original has no audio stream the audio-only
\* fetch is made.
C17_LocalAudioFromOriginal ==
    [][(submode \in {"all+a", "all+a+v"} /\ stage \notin {"start", "end", "crashed"}
          /\ Has(processed_urls[url], "O") /\ has_audio_stream(orig_kind))
        => attempts' = attempts]_vars

C17_Witness ==
    /\ script = "s" /\ submode = "all+a" /\ stage = "end"
    /\ attempts = <<"O">> /\ orig_kind = "av"
    /\ processed_urls[url] = <<"O", "A">>

\* The position of the first occurrence of u in l.
FirstAt(l, u) == CHOOSE i \in 1..Len(l) : l[i] = u /\ \A j \in 1..(i - 1) : l[j] # u

C20_NoReattempt ==
    (run = 2 /\ stage # "start")
    => \A i \in 1..Len(attempts) :
          (IF attempts[i] = "p" THEN "P" ELSE attempts[i]) \notin Letters(first_run[url])

(***************************************************************************)
(*          Properties of get_next_available_name (SpecAlloc)              *)
(***************************************************************************)
\* Neither the primary path of number n nor its thumbnail sidecar exists.
BothFree(n) == Path(n, "primary") \notin files /\ Path(n, "thumb") \notin files

\* C13: get_next_available_name of download.py and process.py, called with
\* start number s, returns the name of the smallest n >= s for which neither
\* the primary path nor the thumbnail sidecar path exists, and n+1 as the
\* next number.
C13_SmallestFree ==
    (allocator \in {"download", "process"} /\ alloc_pc = "returned")
    => /\ ret.num >= start_num
       /\ BothFree(ret.num)
       /\ \A m \in start_num..(ret.num - 1) : ~BothFree(m)
       /\ ret.next = ret.num + 1

\* With {prefix}_1 .. {prefix}_5 present and s = 1 the call returns {prefix}_6.
C13_Witness ==
    /\ allocator = "download" /\ alloc_pc = "returned" /\ allocs = 1 /\ start_num = 1
    /\ files = {Path(n, "primary") : n \in 1..5}
    /\ ret = [num |-> 6, next |-> 7]

\* C14: an allocator that returns a thumbnail sidecar name, or reserves one by
\* its check (download.py, Download/download_yt.py, Trim/trim.py), never
\* returns a number whose sidecar path exists.
C14_SidecarFree ==
    (allocator \in {"download", "download_yt", "trim"} /\ alloc_pc = "returned")
    => Path(ret.num, "thumb") \notin files

\* C15: a path handed out by a name allocation of the download batch
\* (download.py, s.py) does not exist when it is returned.
C15_ReturnedPathFree ==
    (allocator \in {"download", "s"} /\ alloc_pc = "returned")
    => Path(ret.num, "primary") \notin files

\* C16: no finalization of the download pipeline (download.py,
\* Download/download_yt.py) replaces or deletes a file that was in the output
\* directory.
C16_NothingReplaced ==
    allocator \in {"download", "download_yt"} => clobbered = {}

(***************************************************************************)
(*              Properties of the image pool (SpecWm)                      *)
(***************************************************************************)
\* C19: no two items are in flight at the same time.
C19_OneItemInFlight == Cardinality(InFlight(wm_pc)) <= 1

(***************************************************************************)
(*           Properties of the probes and the target (SpecProbe)           *)
(***************************************************************************)
\* C21: for a source of at least 1x1 the bucket chosen on the even-rounded
\* dimensions w, h is Landscape (1920x1080) exactly when w/h > 1.5, Portrait
\* (1080x1920) exactly when w/h < 0.67 and Square (1080x1080) otherwise, a ratio
\* of exactly 1.5 or 0.67 being Square; 1600x1000 is Landscape, 1000x1600 is
\* Portrait and 1000x1000 is Square.
C21_Bucket ==
    (fn = "target" /\ returned.called) =>
        LET w == width + (width % 2)
            h == height + (height % 2)
            b == returned.bucket
        IN /\ (b = <<1920, 1080>>) = (2 * w > 3 * h)
           /\ (b = <<1080, 1920>>) = (100 * w < 67 * h)
           /\ (b = <<1080, 1080>>) = (2 * w <= 3 * h /\ 100 * w >= 67 * h)
           /\ (width = 1600 /\ height = 1000 => b = <<1920, 1080>>)
           /\ (width = 1000 /\ height = 1600 => b = <<1080, 1920>>)
           /\ (width = 1000 /\ height = 1000 => b = <<1080, 1080>>)

\* A source of ratio exactly 1.5 was put in the Square bucket.
C21_Witness ==
    /\ fn = "target" /\ returned.called
    /\ width = 1500 /\ height = 1000
    /\ returned.bucket = <<1080, 1080>>

C24_DefaultOnFailure ==
    (fn = "get_video_dimensions" /\ returned.called
        /\ (~probe_success \/ output # "data")) =>
        /\ returned.raised = ""
        /\ returned.dims = <<1920, 1080>>

\* C25: has_audio_stream and has_video_stream return false whenever the probe
\* fails, whatever text it produced, and true only when the probe lists a stream
\* of the type asked for.
C25_FalseOnFailure ==
    (fn \in {"has_audio_stream", "has_video_stream"} /\ returned.called) =>
        /\ (~probe_success => ~returned.bool)
        /\ (returned.bool => output = "data")

\* C26: whenever the duration probe yields 0, the caller does not use that
\* duration in a loop count, a division or a trim bound: it aborts the operation
\* or takes a fallback that does not depend on the duration.
C26_ZeroDurationUnused ==
    (fn = "loop" /\ returned.called
        /\ (audio_duration = 0 \/ (site \in {"s_combine", "process_combine"} /\ duration = 0))) =>
        /\ returned.raised = ""
        /\ returned.outcome \in {"aborted", "fallback"}

(***************************************************************************)
(*        Properties of the combined tier of download.py (SpecTier)        *)
(***************************************************************************)
\* The current item, once its fetched file has been finalized or re-encoded.
Finalizing == IF o_item.how # "" THEN {o_item} ELSE {}

C27_Consecutive ==
    (\A i \in 1..Len(o_done) : o_done[i].fetch = "ok" /\ o_done[i].fin = "ok") =>
        \A i \in 1..Len(o_done) : o_done[i].num = i

\* C28: after an item whose transcode failed, no file written at its allocated
\* output path remains in the output directory.
C28_FailedOutputRemoved ==
    \A i \in 1..Len(o_done) :
        o_done[i].fin \in {"fail", "fail_partial"} =>
            \A f \in output_dir : f.num # o_done[i].num

\* C29: a tier whose primary output was finalized is marked acquired whether or
\* not there was a thumbnail and whether or not its relocation succeeded; a
\* thumbnail failure never makes the tier fail or raise.
C29_ThumbnailNeverFails ==
    \A i \in 1..Len(o_done) :
        o_done[i].fin = "ok" => o_done[i].recorded /\ ~o_done[i].raised

(***************************************************************************)
(*               The end of the batch (SpecBatch, download.py)             *)
(***************************************************************************)
\* What the message printed after the loop holds:
\* print(f"Done! Outputs saved in {output_dir}").
Done == {"output_dir"}

\* C30: when the batch of download.py ends, it reports a summary whose succeeded
\* and failed counts add up to the number of deduplicated items.
C30_SummaryReported ==
    (script = "download" /\ stage = "end" /\ unique_urls # <<>>) =>
        {"succeeded", "failed"} \subseteq Done

(***************************************************************************)
(*                 Properties of sanitize_filename (SpecSan)               *)
(***************************************************************************)
\* C31: sanitize_filename of download.py and process.py is idempotent, and for
\* every input its result holds no invalid character and no whitespace, does
\* not start with '.' or '_', and is no longer than the slice limit.
C31_Sanitized ==
    (sanitized # <<"?">> /\ san_site \in {"download", "process"}) =>
        /\ sanitize_filename(san_site, sanitized) = sanitized
        /\ \A i \in 1..Len(sanitized) : sanitized[i] \notin {"<", " "}
        /\ (sanitized # <<>> => sanitized[1] \notin {".", "_"})
        /\ Len(sanitized) <= Limit

\* A name with an invalid character and whitespace inside, longer than the
\* limit once both are replaced, was cut to the limit.
C31_Witness ==
    /\ san_site = "download"
    /\ filename = <<"a", "<", " ", "a">>
    /\ sanitized = <<"a", "_", "_">>

(***************************************************************************)
(*             More properties of the combined tier (SpecTier)             *)
(***************************************************************************)
\* C32: the letter of a tier is appended to the item's list only when the
\* tier's output file was written to its final path; an item with a non-empty
\* list has a finalized output file.
C32_RecordedOnlyFinalized ==
    \A i \in 1..Len(o_done) :
        o_done[i].recorded =>
            /\ o_done[i].fin = "ok"
            /\ \E f \in output_dir \ partial : f.num = o_done[i].num /\ f.ext = "mp4"

(***************************************************************************)
(*                More properties of the batch loop (SpecBatch)            *)
(***************************************************************************)
\* C33: the file at a tier's temporary path is post-processed, and the tier
\* marked acquired, only if the tier's fetch command returned success.
C33_OnlySuccessfulFetchUsed ==
    (stage \in {"finally", "end", "crashed"} /\ Has(processed_urls[url], "O")) =>
        ~failed_fetch_used

(***************************************************************************)
(*                 More properties of run_command (SpecRun)                *)
(***************************************************************************)
\* C34: run_command reports success exactly when the child ran to completion
\* with exit code 0, whatever suppress_errors is.
C34_SuccessIffExitZero ==
    (pc = "done" /\ result # "None") =>
        ((result = "Success") =
            (process.status = "exited" /\ process.beh.fate = "exit0"))

\* C35: the variants with a retries parameter agree on it: for retries = r the
\* command is spawned at least once and at most r+1 times, exactly r+1 times
\* when every attempt timed out, and a (success, output) pair is returned.
C35_RetriesAgree ==
    (pc = "done" /\ variant \in {"process", "combine"}) =>
        /\ spawned >= 1
        /\ spawned <= retries + 1
        /\ result # "None"
        /\ ((\A i \in 1..Len(outcomes) : outcomes[i] = "TimedOut") =>
                spawned = retries + 1)

(***************************************************************************)
(*               Properties of the batch conversions (SpecConv)            *)
(***************************************************************************)
\* C36: a failed conversion of one input file does not stop the batch: every
\* remaining input file is still attempted.
C36_EveryFileAttempted ==
    (conv_script # "convert" /\ conv_stage \in {"end", "exited"}) =>
        attempted = 1..input_files

\* C40: the second run of Convert/convert.py with the same arguments converts
\* nothing and allocates no name for an input that the first run converted and
\* whose logged output file still exists.
C40_SecondRunSkips ==
    conv_run = 2 => again \cap converted = {}

(***************************************************************************)
(*             Properties of the 'split' submode (SpecSplit)               *)
(***************************************************************************)
\* C37: in the split submode, where the combined fetch and the video-only
\* remux succeed and the file has an audio stream, the audio is extracted to
\* the item's {base}_audio.m4a and 'O' and 'A' are recorded, whether the title
\* was fetched or not; 'A' is recorded only where that audio file was produced.
C37_SplitAudio ==
    \A i \in 1..Len(split_done) :
        LET d == split_done[i]
        IN /\ (d.fetched /\ d.remuxed /\ d.has_audio) =>
                  (d.letters = <<"O", "A">> /\ d.extracted /\ d.path = i)
           /\ Has(d.letters, "A") => (d.extracted /\ d.path = i)

(***************************************************************************)
(*          Properties of the selection in Combine/combine.py (SpecComb)   *)
(***************************************************************************)
\* C38: for two readable files of which one has a video stream and the other
\* an audio stream, in some assignment, the script selects a video file and an
\* audio file and goes on to combine them, in either order of the listing.
C38_SelectsWhenPossible ==
    (/\ comb_stage \in {"combine", "exit"}
     /\ \A i \in 1..Len(listing) : listing[i].readable
     /\ \E i, j \in 1..Len(listing) :
           i # j /\ listing[i].has_video /\ listing[j].has_audio) =>
        (comb_stage = "combine" /\ video_file # "None" /\ audio_file # "None")

(***************************************************************************)
(*       Properties of move_file and move_or_copy_file (SpecMove)          *)
(***************************************************************************)
\* C39: a call in move mode that returns a destination path leaves the source
\* absent and a file at the returned path, and the returned path did not exist
\* before the call, with and without the application of metadata.
C39_Moved ==
    (move_stage = "returned" /\ ~copy_flag) =>
        (~src_exists /\ move_ret \in dests /\ move_ret \notin dests_before)
====
